---------------------------- MODULE Spec2Model ----------------------------
(***************************************************************************)
(* Fix-It-Now failure predictor: the SimpleRandomForest trainer            *)
(* (scripts/train_model.py), the verification script's inference engine    *)
(* (scripts/verify_model.py) and the API's inference engine (api/main.py). *)
(*                                                                         *)
(* Numbers.  Python floats are modelled by exact scaled integers:          *)
(*   feature values and thresholds  in units of 0.001                      *)
(*   probabilities                  in units of 0.0001                     *)
(*   days                           in units of 1                          *)
(* and split gains / feature importances by exact fractions [n, d].        *)
(* round(x, 2) is rounding a feature value to a multiple of 10 units,      *)
(* round(x, 4) is rounding a mean probability to a whole unit, round(x) is *)
(* rounding a mean of days to an integer; Python rounds halves to even.    *)
(***************************************************************************)
EXTENDS Integers, Sequences, FiniteSets, TLC

VARIABLES
    rng,         \* state of the module-global generator `random`
    forest,      \* the SimpleRandomForest object: n_trees, trees, feature_importances
    exported,    \* the dict last returned by export_to_json (holds references)
    disk,        \* model_params.json
    model_data,  \* api/main.py global
    model_loaded,\* api/main.py global
    out,         \* the last call and what it returned
    hist         \* bookkeeping about the run (never read by an operation)

vars == <<rng, forest, exported, disk, model_data, model_loaded, out, hist>>

---------------------------------------------------------------------------
(* Bounds of the model *)

\* largest n_trees a SimpleRandomForest is constructed with
MaxNTrees == 2
\* number of fit calls on one object
MaxFits == 2
\* states the generator of `random` can start a process in: 0 .. NumSeeds-1
NumSeeds == 2

---------------------------------------------------------------------------
(* Python values *)

None == [py |-> "None"]

\* a raised exception, as the value of the call that raised it
Raise(e) == [exc |-> e]
IsExc(v) == "exc" \in DOMAIN v

\* dict.get(key, default) on a dict with string keys
Get(d, k, default) == IF k \in DOMAIN d THEN d[k] ELSE default

Range(s) == {s[i] : i \in DOMAIN s}

RECURSIVE SumSeq(_)
SumSeq(s) == IF s = <<>> THEN 0 ELSE Head(s) + SumSeq(Tail(s))

Abs(x) == IF x < 0 THEN -x ELSE x

\* a rounding that always goes to the integer above the floor
RoundAbove(n, d) == (n \div d) + 1

\* floor of n/d for d > 0 (TLA+ \div floors)
\* round(n/d) to an integer, halves to even
RoundHalfEven(n, d) ==
    LET q == n \div d
        r == n % d
    IN  IF 2 * r < d THEN q
        ELSE IF 2 * r > d THEN q + 1
        ELSE IF q % 2 = 0 THEN q ELSE q + 1

\* round(v, 2) of a feature value held in units of 0.001
Round2(v) == 10 * RoundHalfEven(v, 10)

RECURSIVE GCD(_, _)
GCD(a, b) == IF b = 0 THEN a ELSE GCD(b, a % b)

\* exact fractions
Rat(n, d) == LET g == GCD(Abs(n), d) IN [n |-> n \div g, d |-> d \div g]
RatZero == [n |-> 0, d |-> 1]
RatAdd(a, b) ==
    LET g == GCD(a.d, b.d)
    IN  Rat(a.n * (b.d \div g) + b.n * (a.d \div g), (a.d \div g) * b.d)
RatSub(a, b) ==
    LET g == GCD(a.d, b.d)
    IN  Rat(a.n * (b.d \div g) - b.n * (a.d \div g), (a.d \div g) * b.d)
RatMul(a, b) ==
    LET g1 == GCD(Abs(a.n), b.d)
        g2 == GCD(Abs(b.n), a.d)
    IN  Rat((a.n \div g1) * (b.n \div g2), (a.d \div g2) * (b.d \div g1))
RatDiv(a, b) ==
    LET g1 == GCD(Abs(a.n), b.n)
        g2 == GCD(a.d, b.d)
    IN  Rat((a.n \div g1) * (b.d \div g2), (a.d \div g2) * (b.n \div g1))
RatLess(a, b) ==
    LET g == GCD(a.d, b.d)
    IN  a.n * (b.d \div g) < b.n * (a.d \div g)

---------------------------------------------------------------------------
(* Feature names *)

numeric_features ==
    << "asset_age_months", "days_since_last_maintenance", "total_maintenance_count",
       "avg_monthly_usage_hours", "ambient_temperature_avg", "humidity_level_avg",
       "power_outage_events_last_year", "manufacturer_rating", "building_age_years",
       "seasonal_load_factor" >>

categorical_features == << "asset_type", "last_repair_severity", "installation_quality" >>

target_classes == << "low", "medium", "high" >>

---------------------------------------------------------------------------
(* The generator `random`: a linear congruential generator stands for the  *)
(* Mersenne Twister.  Every draw advances the state.                       *)

RngAdvance(s) == (2 * s + 1) % 101
\* a draw in 0 .. n-1
RandBelow(s, n) == s % n

\* random.choices(population, k = k)
RECURSIVE random_choices(_, _, _)
random_choices(population, k, s) ==
    IF k = 0 THEN [value |-> <<>>, rng |-> s]
    ELSE LET pick == population[RandBelow(s, Len(population)) + 1]
             rest == random_choices(population, k - 1, RngAdvance(s))
         IN  [value |-> <<pick>> \o rest.value, rng |-> rest.rng]

\* random.sample(population, k): k distinct elements, in the order drawn
RECURSIVE random_sample(_, _, _)
random_sample(population, k, s) ==
    IF k = 0 THEN [value |-> <<>>, rng |-> s]
    ELSE LET j == RandBelow(s, Len(population)) + 1
             remaining == [i \in 1..(Len(population) - 1) |->
                              IF i < j THEN population[i] ELSE population[i + 1]]
             rest == random_sample(remaining, k - 1, RngAdvance(s))
         IN  [value |-> <<population[j]>> \o rest.value, rng |-> rest.rng]

---------------------------------------------------------------------------
(* Dicts that are iterated: a sequence of [k, v] items in insertion order  *)

ItemIndex(items, k) == CHOOSE i \in DOMAIN items : items[i].k = k
HasKey(items, k) == \E i \in DOMAIN items : items[i].k = k
ItemsGet(items, k, default) == IF HasKey(items, k) THEN items[ItemIndex(items, k)].v ELSE default
\* items[k] = v: an existing key keeps its place, a new key goes last
ItemsSet(items, k, v) ==
    IF HasKey(items, k)
    THEN [items EXCEPT ![ItemIndex(items, k)] = [k |-> k, v |-> v]]
    ELSE Append(items, [k |-> k, v |-> v])

\* Counter(labels): items in order of first occurrence
Counter(labels) ==
    LET First(i) == \A j \in 1..(i - 1) : labels[j] # labels[i]
        firsts == SelectSeq([i \in DOMAIN labels |-> i], First)
    IN  [n \in DOMAIN firsts |->
            [k |-> labels[firsts[n]],
             v |-> Cardinality({j \in DOMAIN labels : labels[j] = labels[firsts[n]]})]]

\* the first item with the greatest value: max(items, key = value), and
\* Counter.most_common(1)[0] (equal counts stay in first-encountered order)
FirstMax(items) ==
    LET best == CHOOSE i \in DOMAIN items :
                    /\ \A j \in DOMAIN items : items[j].v <= items[i].v
                    /\ \A j \in 1..(i - 1) : items[j].v < items[i].v
    IN  items[best]

---------------------------------------------------------------------------
(* scripts/train_model.py: class SimpleRandomForest *)

MinSamplesToSplit == 10
MaxDepth == 5
\* a limit that lets a split of gain 0 pass
MinGainNone == [n |-> 0, d |-> 1]
\* the gain below which _build_tree makes a leaf: 0.001
MinGain == [n |-> 1, d |-> 1000]

\* a left side that takes the samples at the threshold too
LeftOfInclusive(data, feature, threshold) ==
    LET T(d) == Get(d.features, feature, 0) <= threshold IN SelectSeq(data, T)

\* d['features'].get(feature, 0) < threshold  /  >= threshold
LeftOf(data, feature, threshold) ==
    LET T(d) == Get(d.features, feature, 0) < threshold IN SelectSeq(data, T)
RightOf(data, feature, threshold) ==
    LET T(d) == Get(d.features, feature, 0) >= threshold IN SelectSeq(data, T)

\* the nested function entropy(subset) of _calculate_split_gain: -sum p_c^2
entropy(subset) ==
    IF Len(subset) = 0 THEN RatZero
    ELSE LET counts == Counter([i \in DOMAIN subset |-> subset[i].target.risk_level])
             total == Len(subset)
             squares == [i \in DOMAIN counts |-> counts[i].v * counts[i].v]
         IN  Rat(-SumSeq(squares), total * total)

calculate_split_gain(data, feature, threshold) ==
    LET left == LeftOf(data, feature, threshold)
        right == RightOf(data, feature, threshold)
    IN  IF Len(left) = 0 \/ Len(right) = 0 THEN RatZero
        ELSE LET parent_entropy == entropy(data)
                 weighted_child ==
                     RatAdd(RatMul(Rat(Len(left), Len(data)), entropy(left)),
                            RatMul(Rat(Len(right), Len(data)), entropy(right)))
             IN  RatSub(parent_entropy, weighted_child)

RECURSIVE SortedSeq(_)
SortedSeq(S) ==
    IF S = {} THEN <<>>
    ELSE LET m == CHOOSE x \in S : \A y \in S : x <= y
         IN  <<m>> \o SortedSeq(S \ {m})

\* sorted(set(... for d in data if isinstance(d['features'].get(feature), (int, float))))
DistinctValues(data, feature) ==
    SortedSeq({data[i].features[feature] : i \in {j \in DOMAIN data : feature \in DOMAIN data[j].features}})

\* the thresholds tried for one feature, in the order tried: the values at
\* int(len * 0.25), int(len * 0.5), int(len * 0.75), each clamped to len - 1
Thresholds(values) ==
    IF Len(values) < 2 THEN <<>>
    ELSE [p \in 1..3 |->
            LET idx == (Len(values) * p) \div 4
                at == IF idx < Len(values) - 1 THEN idx ELSE Len(values) - 1
            IN  values[at + 1]]

\* the two loops of _find_best_split over the sampled features and the
\* percentiles, from feature number i and threshold number j on
\* a comparison that lets a candidate of equal gain replace the best so far
BetterOrEqual(best, feature, threshold, gain) ==
    IF RatLess(gain, best.gain)
    THEN best
    ELSE [feature |-> feature, threshold |-> threshold, gain |-> gain]

\* if gain > best_gain: the candidate replaces the best so far
Better(best, feature, threshold, gain) ==
    IF RatLess(best.gain, gain)
    THEN [feature |-> feature, threshold |-> threshold, gain |-> gain]
    ELSE best

RECURSIVE BestSplitLoop(_, _, _, _, _, _)
BestSplitLoop(data, sampled, i, ths, j, best) ==
    IF j <= Len(ths)
    THEN BestSplitLoop(data, sampled, i, ths, j + 1,
                       Better(best, sampled[i], ths[j], calculate_split_gain(data, sampled[i], ths[j])))
    ELSE IF i < Len(sampled)
    THEN BestSplitLoop(data, sampled, i + 1, Thresholds(DistinctValues(data, sampled[i + 1])), 1, best)
    ELSE best

NoFeature == "None"

\* the loops of _find_best_split over the features sampled
BestOf(data, sampled) ==
    [best |-> BestSplitLoop(data, sampled.value, 0, <<>>, 1,
                            [feature |-> NoFeature, threshold |-> 0, gain |-> [n |-> -1, d |-> 1]]),
     rng |-> sampled.rng]

find_best_split(data, features, s) ==
    BestOf(data, random_sample(features, IF Len(features) < 5 THEN Len(features) ELSE 5, s))

\* a leaf code whose values for an empty subset are low, 0.0 and 0
MakeLeafOtherDefaults(data) ==
    LET risk_counts == Counter([i \in DOMAIN data |-> data[i].target.risk_level])
        n == Len(data)
    IN  [type |-> "leaf",
         prediction |-> IF risk_counts # <<>> THEN FirstMax(risk_counts).k ELSE "low",
         probability |-> IF n > 0
                         THEN RoundHalfEven(SumSeq([i \in DOMAIN data |-> data[i].target.failure_probability]), n)
                         ELSE 0,
         days |-> IF n > 0
                  THEN RoundHalfEven(SumSeq([i \in DOMAIN data |-> data[i].target.estimated_days_to_failure]), n)
                  ELSE 0,
         samples |-> n]

\* the leaf _build_tree makes of a subset (both leaf branches are this code)
MakeLeaf(data) ==
    LET risk_counts == Counter([i \in DOMAIN data |-> data[i].target.risk_level])
        majority_class == IF risk_counts # <<>> THEN FirstMax(risk_counts).k ELSE "medium"
        n == Len(data)
    IN  [type |-> "leaf",
         prediction |-> majority_class,
         probability |-> IF n > 0
                         THEN RoundHalfEven(SumSeq([i \in DOMAIN data |-> data[i].target.failure_probability]), n)
                         ELSE 5000,
         days |-> IF n > 0
                  THEN RoundHalfEven(SumSeq([i \in DOMAIN data |-> data[i].target.estimated_days_to_failure]), n)
                  ELSE 100,
         samples |-> n]

\* _build_tree(data, depth, max_depth) on an object whose feature_importances
\* is fi with the generator in state s: the tree, and both afterwards.
\* BuildSplit is the part after _find_best_split has returned `found`.
RECURSIVE build_tree(_, _, _, _, _)
RECURSIVE BuildSplit(_, _, _, _, _)
\* a _build_tree that does not look at the size of the subset
BuildTreeAnySize(data, depth, max_depth, fi, s) ==
    IF depth >= max_depth
    THEN [tree |-> MakeLeaf(data), fi |-> fi, rng |-> s]
    ELSE BuildSplit(data, depth, max_depth, fi, find_best_split(data, numeric_features, s))
\* a _build_tree that does not look at the depth
BuildTreeAnyDepth(data, depth, max_depth, fi, s) ==
    IF Len(data) < MinSamplesToSplit
    THEN [tree |-> MakeLeaf(data), fi |-> fi, rng |-> s]
    ELSE BuildSplit(data, depth, max_depth, fi, find_best_split(data, numeric_features, s))
build_tree(data, depth, max_depth, fi, s) ==
    IF depth >= max_depth \/ Len(data) < MinSamplesToSplit
    THEN [tree |-> MakeLeaf(data), fi |-> fi, rng |-> s]
    ELSE BuildSplit(data, depth, max_depth, fi, find_best_split(data, numeric_features, s))
\* a split named, in the node and in feature_importances, by the asset_type
\* attribute of the samples instead of the feature split on
BuildSplitNamedByType(data, depth, max_depth, fi, found) ==
    IF found.best.feature = NoFeature \/ RatLess(found.best.gain, MinGain)
    THEN [tree |-> MakeLeaf(data), fi |-> fi, rng |-> found.rng]
    ELSE LET l == build_tree(LeftOf(data, found.best.feature, found.best.threshold), depth + 1, max_depth,
                             ItemsSet(fi, "asset_type", RatAdd(ItemsGet(fi, "asset_type", RatZero), found.best.gain)),
                             found.rng)
             r == build_tree(RightOf(data, found.best.feature, found.best.threshold), depth + 1, max_depth,
                             l.fi, l.rng)
         IN  [tree |-> [type |-> "split",
                        feature |-> "asset_type",
                        threshold |-> Round2(found.best.threshold),
                        left |-> l.tree,
                        right |-> r.tree],
              fi |-> r.fi, rng |-> r.rng]

\* a split that leaves feature_importances as it was
BuildSplitUntracked(data, depth, max_depth, fi, found) ==
    IF found.best.feature = NoFeature \/ RatLess(found.best.gain, MinGain)
    THEN [tree |-> MakeLeaf(data), fi |-> fi, rng |-> found.rng]
    ELSE LET l == build_tree(LeftOf(data, found.best.feature, found.best.threshold), depth + 1, max_depth,
                             fi, found.rng)
             r == build_tree(RightOf(data, found.best.feature, found.best.threshold), depth + 1, max_depth,
                             l.fi, l.rng)
         IN  [tree |-> [type |-> "split",
                        feature |-> found.best.feature,
                        threshold |-> Round2(found.best.threshold),
                        left |-> l.tree,
                        right |-> r.tree],
              fi |-> r.fi, rng |-> r.rng]

BuildSplit(data, depth, max_depth, fi, found) ==
    IF found.best.feature = NoFeature \/ RatLess(found.best.gain, MinGain)
    THEN [tree |-> MakeLeaf(data), fi |-> fi, rng |-> found.rng]
    ELSE LET best_feature == found.best.feature
             best_threshold == found.best.threshold
             gain == found.best.gain
             l == build_tree(LeftOf(data, best_feature, best_threshold), depth + 1, max_depth,
                             ItemsSet(fi, best_feature, RatAdd(ItemsGet(fi, best_feature, RatZero), gain)),
                             found.rng)
             r == build_tree(RightOf(data, best_feature, best_threshold), depth + 1, max_depth,
                             l.fi, l.rng)
         IN  [tree |-> [type |-> "split",
                        feature |-> best_feature,
                        threshold |-> Round2(best_threshold),
                        left |-> l.tree,
                        right |-> r.tree],
              fi |-> r.fi, rng |-> r.rng]

\* self.trees.append(tree), with what _build_tree did to feature_importances
AppendTree(self, built) ==
    [self EXCEPT !.trees = Append(@, built.tree), !.feature_importances = built.fi]

\* tree = self._build_tree(sample)
BuildFrom(self, sample) ==
    build_tree(sample.value, 0, MaxDepth, self.feature_importances, sample.rng)

\* the loop of fit: trees i .. n_trees
RECURSIVE FitLoop(_, _, _, _)
RECURSIVE FitStep(_, _, _, _)
FitLoop(self, data, i, s) ==
    IF i > self.n_trees THEN [self |-> self, rng |-> s]
    ELSE FitStep(self, data, i, BuildFrom(self, random_choices(data, Len(data), s)))
FitStep(self, data, i, built) == FitLoop(AppendTree(self, built), data, i + 1, built.rng)

RECURSIVE RatSum(_)
RatSum(items) == IF items = <<>> THEN RatZero ELSE RatAdd(Head(items).v, RatSum(Tail(items)))

\* for f in self.feature_importances: self.feature_importances[f] /= total_importance
DivideAll(fi, total_importance) ==
    [i \in DOMAIN fi |-> [k |-> fi[i].k, v |-> RatDiv(fi[i].v, total_importance)]]

\* the normalisation that ends fit
NormalizeBy(fi, total_importance) ==
    IF RatLess(RatZero, total_importance) THEN DivideAll(fi, total_importance) ELSE fi

\* a fit that ends without the normalisation
NormalizeSkipped(fi) == fi

Normalize(fi) == NormalizeBy(fi, RatSum(fi))

FinishFit(looped) ==
    [self |-> [looped.self EXCEPT !.feature_importances = Normalize(@)], rng |-> looped.rng]

\* SimpleRandomForest.fit(data): the object and the generator afterwards
fit(self, data, s) == FinishFit(FitLoop(self, data, 1, s))

\* SimpleRandomForest(n_trees)
NewForest(n_trees) == [n_trees |-> n_trees, trees |-> <<>>, feature_importances |-> <<>>]

---------------------------------------------------------------------------
(* Training data: preprocess_features / get_target of one CSV row.  The    *)
(* rows differ in two numeric features and in the targets.                 *)

Row(age, since, risk, prob, days) ==
    [features |->
        [asset_age_months |-> age,
         days_since_last_maintenance |-> since,
         total_maintenance_count |-> 4000,
         avg_monthly_usage_hours |-> 200000,
         ambient_temperature_avg |-> 28000,
         humidity_level_avg |-> 50000,
         power_outage_events_last_year |-> 2000,
         manufacturer_rating |-> 3000,
         building_age_years |-> 10000,
         seasonal_load_factor |-> 1000,
         asset_type |-> "hvac",
         last_repair_severity |-> "none",
         installation_quality |-> "average"],
     target |->
        [failure_probability |-> prob,
         risk_level |-> risk,
         estimated_days_to_failure |-> days]]

\* an empty training file
DataEmpty == <<>>

\* every row has the same risk_level
DataOneClass ==
    << Row(12000, 30000, "low", 1000, 300), Row(24000, 30000, "low", 1200, 280),
       Row(36000, 60000, "low", 1500, 260), Row(48000, 60000, "low", 1800, 250),
       Row(60000, 90000, "low", 2000, 240), Row(66000, 90000, "low", 2100, 230),
       Row(70000, 30000, "low", 2200, 220), Row(72000, 30000, "low", 2300, 210),
       Row(80000, 60000, "low", 2400, 200), Row(84000, 60000, "low", 2500, 190) >>

\* three classes, old and long unmaintained assets at higher risk
DataMixed ==
    << Row(12000, 30000, "low", 1000, 300), Row(24000, 30000, "low", 1200, 280),
       Row(36000, 60000, "low", 1500, 260), Row(48004, 200000, "medium", 4000, 120),
       Row(60000, 90000, "low", 2000, 240), Row(66000, 250000, "medium", 4500, 100),
       Row(90001, 200000, "medium", 5000, 90), Row(120000, 300000, "high", 8000, 30),
       Row(132000, 300000, "high", 8500, 25), Row(144000, 30000, "medium", 5500, 80),
       Row(168000, 400000, "high", 9000, 15), Row(180000, 400000, "high", 9500, 7) >>

DataSets == [empty |-> DataEmpty, oneclass |-> DataOneClass, mixed |-> DataMixed]
DataIds == DOMAIN DataSets

---------------------------------------------------------------------------
(* JSON text: a sequence of tokens.  json.dump writes a dict's keys in     *)
(* insertion order; json.load builds a dict for every object, keeps the    *)
(* last of repeated keys and rejects text that is not JSON.                *)

Str(x) == [t |-> "str", v |-> x]
Num(x) == [t |-> "num", v |-> x]
Punct(c) == [t |-> "punct", v |-> c]
Null == [t |-> "null", v |-> "null"]
\* what no JSON value starts or continues with
Garbage == [t |-> "garbage", v |-> "?"]

RECURSIVE Flatten(_)
Flatten(ss) == IF ss = <<>> THEN <<>> ELSE Head(ss) \o Flatten(Tail(ss))

DumpStrings(list) == <<Punct("[")>> \o [i \in DOMAIN list |-> Str(list[i])] \o <<Punct("]")>>

\* the keys a tree node is created with, in creation order (train_model.py 121-127, 158-164)
NodeKeys == << "type", "prediction", "probability", "days", "samples",
               "feature", "threshold", "left", "right" >>

\* a serializer that writes leaf probabilities with two decimals only
RECURSIVE DumpNodeTwoDecimals(_)
DumpNodeTwoDecimals(node) ==
    LET Member(k) ==
            IF k \notin DOMAIN node THEN <<>>
            ELSE <<Str(k)>> \o
                 (IF k \in {"left", "right"} THEN DumpNodeTwoDecimals(node[k])
                  ELSE IF k \in {"type", "prediction", "feature"} THEN <<Str(node[k])>>
                  ELSE IF k = "probability" THEN <<Num(100 * RoundHalfEven(node[k], 100))>>
                  ELSE <<Num(node[k])>>)
    IN  <<Punct("{")>> \o Flatten([i \in DOMAIN NodeKeys |-> Member(NodeKeys[i])]) \o <<Punct("}")>>

RECURSIVE DumpNode(_)
DumpNode(node) ==
    LET Member(k) ==
            IF k \notin DOMAIN node THEN <<>>
            ELSE <<Str(k)>> \o
                 (IF k \in {"left", "right"} THEN DumpNode(node[k])
                  ELSE IF k \in {"type", "prediction", "feature"} THEN <<Str(node[k])>>
                  ELSE <<Num(node[k])>>)
    IN  <<Punct("{")>> \o Flatten([i \in DOMAIN NodeKeys |-> Member(NodeKeys[i])]) \o <<Punct("}")>>

DumpTrees(trees) == <<Punct("[")>> \o Flatten([i \in DOMAIN trees |-> DumpNode(trees[i])]) \o <<Punct("]")>>

DumpItems(items) ==
    <<Punct("{")>> \o Flatten([i \in DOMAIN items |-> <<Str(items[i].k), Num(items[i].v)>>]) \o <<Punct("}")>>

\* a number that may be None (metadata.accuracy) is held as None or [v |-> number]
DumpOptional(x) == IF x = None THEN <<Null>> ELSE <<Num(x.v)>>
OptionalKeys == {"accuracy"}

DumpMetadata(m) ==
    <<Punct("{"), Str("trained_on"), Num(m.trained_on), Str("tested_on"), Num(m.tested_on),
      Str("accuracy")>> \o DumpOptional(m.accuracy)
    \o <<Str("features")>> \o DumpStrings(m.features)
    \o <<Str("categorical_features")>> \o DumpStrings(m.categorical_features)
    \o <<Str("target_classes")>> \o DumpStrings(m.target_classes)
    \o <<Punct("}")>>

\* json.dump(model_export, f) of train_model.main
json_dump(doc) ==
    <<Punct("{"), Str("model_type"), Str(doc.model_type), Str("n_trees"), Num(doc.n_trees),
      Str("trees")>> \o DumpTrees(doc.trees)
    \o <<Str("feature_importances")>> \o DumpItems(doc.feature_importances)
    \o (IF "metadata" \in DOMAIN doc THEN <<Str("metadata")>> \o DumpMetadata(doc.metadata) ELSE <<>>)
    \o <<Punct("}")>>

IsPunct(tok, c) == tok.t = "punct" /\ tok.v = c

\* the parser: the value that starts at token i, found under the key `key`
\* ("" in an array and at the top), and the place after it.  The object
\* under feature_importances keeps its items in order.
RECURSIVE ParseValue(_, _, _)
RECURSIVE ParseMembers(_, _, _)
RECURSIVE ParseItems(_, _, _)
RECURSIVE ParseElements(_, _, _)
ParseValue(toks, i, key) ==
    LET tok == toks[i]
    IN  IF IsPunct(tok, "{")
        THEN IF key = "feature_importances"
             THEN ParseItems(toks, i + 1, <<>>)
             ELSE ParseMembers(toks, i + 1, <<>>)
        ELSE IF IsPunct(tok, "[") THEN ParseElements(toks, i + 1, <<>>)
        ELSE IF tok.t = "null" THEN [value |-> None, next |-> i + 1]
        ELSE IF tok.t = "num" /\ key \in OptionalKeys THEN [value |-> [v |-> tok.v], next |-> i + 1]
        ELSE [value |-> tok.v, next |-> i + 1]
ParseMembers(toks, i, acc) ==
    IF IsPunct(toks[i], "}") THEN [value |-> acc, next |-> i + 1]
    ELSE LET key == toks[i].v
             val == ParseValue(toks, i + 1, key)
         IN  ParseMembers(toks, val.next, (key :> val.value) @@ acc)
ParseItems(toks, i, acc) ==
    IF IsPunct(toks[i], "}") THEN [value |-> acc, next |-> i + 1]
    ELSE LET key == toks[i].v
             val == ParseValue(toks, i + 1, "")
         IN  ParseItems(toks, val.next, ItemsSet(acc, key, val.value))
ParseElements(toks, i, acc) ==
    IF IsPunct(toks[i], "]") THEN [value |-> acc, next |-> i + 1]
    ELSE LET val == ParseValue(toks, i, "")
         IN  ParseElements(toks, val.next, Append(acc, val.value))

\* json.load(f): the document, or JSONDecodeError
json_load(text) ==
    IF text = <<>> \/ \E i \in DOMAIN text : text[i].t = "garbage"
    THEN Raise("JSONDecodeError")
    ELSE ParseValue(text, 1, "").value

---------------------------------------------------------------------------
(* Feature vectors *)

\* an AssetFeatures request body (api/main.py), the optional fields at their defaults
Asset(age, since) ==
    [asset_type |-> "hvac",
     asset_age_months |-> age,
     days_since_last_maintenance |-> since,
     total_maintenance_count |-> 4000,
     avg_monthly_usage_hours |-> 200000,
     last_repair_severity |-> "none",
     ambient_temperature_avg |-> 28000,
     humidity_level_avg |-> 50000,
     power_outage_events_last_year |-> 2000,
     manufacturer_rating |-> 3000,
     installation_quality |-> "average",
     building_age_years |-> 10000,
     seasonal_load_factor |-> 1000]

\* the dict of the ten numeric features (make_prediction's feature_dict,
\* verify_model.preprocess_features)
FeatureDict(features) == [k \in Range(numeric_features) |-> features[k]]

Assets == { Asset(30000, 30000), Asset(90000, 200000), Asset(89990, 299990), Asset(150000, 300000) }

---------------------------------------------------------------------------
(* Inference: the three copies of the tree traversal and of the ensemble   *)
(* vote.  tree['key'] on a dict without the key raises KeyError.           *)

\* SimpleRandomForest._predict_tree
RECURSIVE predict_tree_train(_, _)
predict_tree_train(tree, features) ==
    IF "type" \notin DOMAIN tree THEN Raise("KeyError")
    ELSE IF tree.type = "leaf" THEN tree
    ELSE IF "feature" \notin DOMAIN tree \/ "threshold" \notin DOMAIN tree THEN Raise("KeyError")
    ELSE LET value == Get(features, tree.feature, 0)
         IN  IF value < tree.threshold
             THEN IF "left" \in DOMAIN tree THEN predict_tree_train(tree.left, features) ELSE Raise("KeyError")
             ELSE IF "right" \in DOMAIN tree THEN predict_tree_train(tree.right, features) ELSE Raise("KeyError")

\* verify_model.predict_tree
RECURSIVE predict_tree_verify(_, _)
predict_tree_verify(tree, features) ==
    IF "type" \notin DOMAIN tree THEN Raise("KeyError")
    ELSE IF tree.type = "leaf" THEN tree
    ELSE IF "feature" \notin DOMAIN tree \/ "threshold" \notin DOMAIN tree THEN Raise("KeyError")
    ELSE LET value == Get(features, tree.feature, 0)
         IN  IF value < tree.threshold
             THEN IF "left" \in DOMAIN tree THEN predict_tree_verify(tree.left, features) ELSE Raise("KeyError")
             ELSE IF "right" \in DOMAIN tree THEN predict_tree_verify(tree.right, features) ELSE Raise("KeyError")

\* a traversal that also goes left on a value equal to the threshold
RECURSIVE predict_tree_le(_, _)
predict_tree_le(tree, features) ==
    IF "type" \notin DOMAIN tree THEN Raise("KeyError")
    ELSE IF tree.type = "leaf" THEN tree
    ELSE IF "feature" \notin DOMAIN tree \/ "threshold" \notin DOMAIN tree THEN Raise("KeyError")
    ELSE LET value == Get(features, tree.feature, 0)
         IN  IF value <= tree.threshold
             THEN IF "left" \in DOMAIN tree THEN predict_tree_le(tree.left, features) ELSE Raise("KeyError")
             ELSE IF "right" \in DOMAIN tree THEN predict_tree_le(tree.right, features) ELSE Raise("KeyError")

\* api/main.py predict_tree
RECURSIVE predict_tree(_, _)
predict_tree(tree, features) ==
    IF "type" \notin DOMAIN tree THEN Raise("KeyError")
    ELSE IF tree.type = "leaf" THEN tree
    ELSE IF "feature" \notin DOMAIN tree \/ "threshold" \notin DOMAIN tree THEN Raise("KeyError")
    ELSE LET value == Get(features, tree.feature, 0)
         IN  IF value < tree.threshold
             THEN IF "left" \in DOMAIN tree THEN predict_tree(tree.left, features) ELSE Raise("KeyError")
             ELSE IF "right" \in DOMAIN tree THEN predict_tree(tree.right, features) ELSE Raise("KeyError")

\* the aggregation both predict methods share, over the leaves reached:
\* Counter of the predictions, the two means, most_common(1)
Aggregate(predictions) ==
    IF \E i \in DOMAIN predictions : IsExc(predictions[i]) THEN Raise("KeyError")
    ELSE IF \E i \in DOMAIN predictions :
                {"prediction", "probability", "days"} \ DOMAIN predictions[i] # {}
         THEN Raise("KeyError")
    ELSE IF predictions = <<>> THEN Raise("ZeroDivisionError")
    ELSE LET risk_votes == Counter([i \in DOMAIN predictions |-> predictions[i].prediction])
             n == Len(predictions)
         IN  [risk_level |-> FirstMax(risk_votes).k,
              failure_probability |->
                  RoundHalfEven(SumSeq([i \in DOMAIN predictions |-> predictions[i].probability]), n),
              estimated_days_to_failure |->
                  RoundHalfEven(SumSeq([i \in DOMAIN predictions |-> predictions[i].days]), n),
              vote_distribution |-> risk_votes]

\* what the callers compare: the three predicted values
Prediction(r) ==
    IF IsExc(r) THEN r
    ELSE [risk_level |-> r.risk_level,
          failure_probability |-> r.failure_probability,
          estimated_days_to_failure |-> r.estimated_days_to_failure]

\* SimpleRandomForest.predict
predict_train(self, features) ==
    Prediction(Aggregate([i \in DOMAIN self.trees |-> predict_tree_train(self.trees[i], features)]))

\* verify_model.predict (it also returns vote_distribution)
predict_verify(model, features) ==
    IF "trees" \notin DOMAIN model THEN Raise("KeyError")
    ELSE Aggregate([i \in DOMAIN model.trees |-> predict_tree_verify(model.trees[i], features)])

\* bool(model_data): None and the empty dict are false
Truthy(v) == v # None /\ DOMAIN v # {}

\* the loop of make_prediction over the leaves reached, from leaf i on
RECURSIVE VoteLoop(_, _, _)
VoteLoop(predictions, i, acc) ==
    IF i > Len(predictions) THEN acc
    ELSE LET pred == predictions[i]
             risk == Get(pred, "prediction", "medium")
         IN  VoteLoop(predictions, i + 1,
                      [votes |-> ItemsSet(acc.votes, risk, ItemsGet(acc.votes, risk, 0) + 1),
                       total_prob |-> acc.total_prob + Get(pred, "probability", 5000),
                       total_days |-> acc.total_days + Get(pred, "days", 100)])

Min(a, b) == IF a < b THEN a ELSE b
Max(a, b) == IF a > b THEN a ELSE b

\* the fallback of make_prediction; risk_score is held doubled (it moves in halves)
Heuristic(features) ==
    LET s2 == (IF features.asset_age_months > 120000 THEN 6
               ELSE IF features.asset_age_months > 60000 THEN 3 ELSE 0)
            + (IF features.days_since_last_maintenance > 180000 THEN 6
               ELSE IF features.days_since_last_maintenance > 90000 THEN 3 ELSE 0)
            + (IF 3 * features.total_maintenance_count > features.asset_age_months THEN 4 ELSE 0)
            + (IF features.ambient_temperature_avg > 38000 THEN 2 ELSE 0)
            + (IF features.humidity_level_avg > 80000 THEN 2 ELSE 0)
            + (IF features.manufacturer_rating <= 2000 THEN 2 ELSE 0)
            + (IF features.installation_quality = "poor" THEN 4 ELSE 0)
    IN  IF s2 >= 12
        THEN [risk_level |-> "high",
              failure_probability |-> Min(9500, 6500 + s2 * 150),
              estimated_days_to_failure |-> Max(7, 60 - 2 * s2)]
        ELSE IF s2 >= 6
        THEN [risk_level |-> "medium",
              failure_probability |-> 3000 + s2 * 250,
              estimated_days_to_failure |-> Max(30, 150 - ((15 * s2) \div 2))]
        ELSE [risk_level |-> "low",
              failure_probability |-> Max(500, 1000 + s2 * 150),
              estimated_days_to_failure |-> Min(400, 200 + (6 - s2) * 20)]

\* make_prediction(features) with the globals (data, loaded): the three
\* predicted values of the PredictionResult, or the exception raised
make_prediction(features, data, loaded) ==
    LET feature_dict == FeatureDict(features)
    IN  IF loaded /\ Truthy(data)
        THEN IF "trees" \notin DOMAIN data THEN Raise("KeyError")
             ELSE LET predictions == [i \in DOMAIN data.trees |-> predict_tree(data.trees[i], feature_dict)]
                      start == [votes |-> <<[k |-> "low", v |-> 0], [k |-> "medium", v |-> 0],
                                            [k |-> "high", v |-> 0]>>,
                                total_prob |-> 0, total_days |-> 0]
                  IN  IF \E i \in DOMAIN predictions : IsExc(predictions[i]) THEN Raise("KeyError")
                      ELSE IF predictions = <<>> THEN Raise("ZeroDivisionError")
                      ELSE LET acc == VoteLoop(predictions, 1, start)
                           IN  [risk_level |-> FirstMax(acc.votes).k,
                                failure_probability |-> RoundHalfEven(acc.total_prob, Len(predictions)),
                                estimated_days_to_failure |-> RoundHalfEven(acc.total_days, Len(predictions))]
        ELSE Heuristic(features)

---------------------------------------------------------------------------
(* scripts/train_model.py: export_to_json and main *)

\* export_to_json(): the dict holds the object's own trees list and
\* feature_importances dict, not copies of them
export_to_json(self) ==
    [model_type |-> "random_forest",
     n_trees |-> self.n_trees,
     trees |-> [ref |-> "self.trees"],
     feature_importances |-> [ref |-> "self.feature_importances"]]

\* what a dict returned by export_to_json shows when it is read
Deref(doc, self) ==
    [doc EXCEPT !.trees = self.trees, !.feature_importances = self.feature_importances]

\* held-out rows (test_data.csv)
TestEmpty == <<>>
TestSmall ==
    << Row(20000, 30000, "low", 1100, 290), Row(150000, 300000, "high", 9000, 20),
       Row(90000, 200000, "medium", 5000, 90) >>
TestSets == [none |-> TestEmpty, small |-> TestSmall]
TestIds == DOMAIN TestSets

\* the evaluation step of main: the number of test rows predicted right
Correct(model, test_data) ==
    Cardinality({i \in DOMAIN test_data :
                    predict_train(model, test_data[i].features).risk_level
                        = test_data[i].target.risk_level})

\* metadata.accuracy: round(correct / total * 100, 2) in units of 0.01, None without test rows
Accuracy(model, test_data) ==
    IF test_data # <<>>
    THEN [v |-> RoundHalfEven(Correct(model, test_data) * 10000, Len(test_data))]
    ELSE None

\* model_export of main: export_to_json() and the metadata added to it
ModelExport(model, train_data, test_data) ==
    [k \in {"model_type", "n_trees", "trees", "feature_importances", "metadata"} |->
        IF k = "metadata"
        THEN [trained_on |-> Len(train_data),
              tested_on |-> Len(test_data),
              accuracy |-> Accuracy(model, test_data),
              features |-> numeric_features,
              categorical_features |-> categorical_features,
              target_classes |-> target_classes]
        ELSE Deref(export_to_json(model), model)[k]]

\* main() after model.fit(train_data)
AfterFit(fitted, train_data, test_data) ==
    [model |-> fitted.self, rng |-> fitted.rng,
     text |-> json_dump(ModelExport(fitted.self, train_data, test_data))]

\* main() from the loaded rows on, with SimpleRandomForest(n_trees = n) (the
\* script passes 30): the trained object, the generator afterwards and the
\* text written to model_params.json
train_main(n, train_data, test_data, s) ==
    AfterFit(fit(NewForest(n), train_data, s), train_data, test_data)

\* every run of main the bounds allow, by (n_trees, training set, test set,
\* generator state at the start)
TrainRuns ==
    [n \in 1..MaxNTrees, d \in DataIds, t \in TestIds, s \in 0..(NumSeeds - 1) |->
        train_main(n, DataSets[d], TestSets[t], s)]

---------------------------------------------------------------------------
(* api/main.py: load_model *)

\* what load_model() leaves in (model_data, model_loaded) and returns
load_model(file, data, loaded) ==
    IF ~file.exists THEN [model_data |-> data, model_loaded |-> loaded, result |-> FALSE]
    ELSE LET parsed == json_load(file.text)
         IN  IF IsExc(parsed)
             THEN [model_data |-> data, model_loaded |-> loaded, result |-> FALSE]
             ELSE [model_data |-> parsed, model_loaded |-> TRUE,
                   result |-> "n_trees" \in DOMAIN parsed]

---------------------------------------------------------------------------
(* State *)

NoFile == [exists |-> FALSE, text |-> <<>>]
Idle == [op |-> "none", arg |-> None, result |-> None, leaves |-> <<>>]
NoHist == [fits |-> 0, run |-> None, snapshot |-> None]

\* feature dicts given to SimpleRandomForest.predict and verify_model.predict:
\* those of the assets, and one without days_since_last_maintenance beside
\* the one that has it at 0
Partial == [k \in Range(numeric_features) \ {"days_since_last_maintenance"} |-> Asset(150000, 0)[k]]
Vectors == {FeatureDict(a) : a \in Assets} \cup {Partial, FeatureDict(Asset(150000, 0))}

\* the object life: one SimpleRandomForest in one process
Init ==
    /\ rng \in 0..(NumSeeds - 1)
    /\ \E n \in 1..MaxNTrees : forest = NewForest(n)
    /\ exported = None
    /\ disk = NoFile
    /\ model_data = None
    /\ model_loaded = FALSE
    /\ out = Idle
    /\ hist = NoHist

\* model.fit(data)
Fit(d) ==
    /\ hist.fits < MaxFits
    /\ LET fitted == fit(forest, DataSets[d], rng)
       IN  /\ forest' = fitted.self
           /\ rng' = fitted.rng
    /\ out' = [op |-> "fit", arg |-> [data |-> d], result |-> None, leaves |-> <<>>]
    /\ hist' = [hist EXCEPT !.fits = @ + 1]
    /\ UNCHANGED <<exported, disk, model_data, model_loaded>>

\* model.export_to_json()
Export ==
    /\ exported' = export_to_json(forest)
    /\ out' = [op |-> "export_to_json", arg |-> None, result |-> None, leaves |-> <<>>]
    /\ hist' = [hist EXCEPT !.snapshot = Deref(export_to_json(forest), forest)]
    /\ UNCHANGED <<rng, forest, disk, model_data, model_loaded>>

\* a predict that drops the last tree it used
PredictTrainDropping(x) ==
    /\ forest # None
    /\ forest.trees # <<>>
    /\ out' = [op |-> "predict_train", arg |-> x,
               result |-> predict_train(forest, x),
               leaves |-> [i \in DOMAIN forest.trees |-> predict_tree_train(forest.trees[i], x)]]
    /\ forest' = [forest EXCEPT !.trees = SubSeq(@, 1, Len(@) - 1)]
    /\ UNCHANGED <<rng, exported, disk, model_data, model_loaded, hist>>

\* model.predict(features)
PredictTrain(x) ==
    /\ forest # None
    /\ out' = [op |-> "predict_train", arg |-> x,
               result |-> predict_train(forest, x),
               leaves |-> [i \in DOMAIN forest.trees |-> predict_tree_train(forest.trees[i], x)]]
    /\ UNCHANGED <<rng, forest, exported, disk, model_data, model_loaded, hist>>

Next ==
    \/ \E d \in DataIds : Fit(d)
    \/ Export
    \/ \E x \in Vectors : PredictTrain(x)

Spec == Init /\ [][Next]_vars

---------------------------------------------------------------------------
(* The pipeline: training runs write model_params.json, the verification   *)
(* script and the API read it                                              *)

InitPipeline ==
    /\ rng = 0
    /\ forest = None
    /\ exported = None
    /\ disk = NoFile
    /\ model_data = None
    /\ model_loaded = FALSE
    /\ out = Idle
    /\ hist = NoHist

\* a run whose generator goes on from where the run before left it, whatever
\* the draws this run was to receive
TrainRunUnseeded(n, d, t, s) ==
    /\ LET run == train_main(n, DataSets[d], TestSets[t], rng)
       IN  /\ forest' = run.model
           /\ rng' = run.rng
           /\ disk' = [exists |-> TRUE, text |-> run.text]
    /\ out' = [op |-> "train_main",
               arg |-> [rerun |-> hist.run = [n |-> n, d |-> d, t |-> t, s |-> s]],
               result |-> None, leaves |-> <<>>]
    /\ hist' = [hist EXCEPT !.run = [n |-> n, d |-> d, t |-> t, s |-> s]]
    /\ UNCHANGED <<exported, model_data, model_loaded>>

\* one run of train_model.main in a new process; out.arg.rerun tells whether
\* the run before had the same n_trees, rows and draws
TrainRun(n, d, t, s) ==
    /\ LET run == TrainRuns[n, d, t, s]
       IN  /\ forest' = run.model
           /\ rng' = run.rng
           /\ disk' = [exists |-> TRUE, text |-> run.text]
    /\ out' = [op |-> "train_main",
               arg |-> [rerun |-> hist.run = [n |-> n, d |-> d, t |-> t, s |-> s]],
               result |-> None, leaves |-> <<>>]
    /\ hist' = [hist EXCEPT !.run = [n |-> n, d |-> d, t |-> t, s |-> s]]
    /\ UNCHANGED <<exported, model_data, model_loaded>>

\* verify_model: predict(model, features) on the document load_model returned
VerifyWith(model, x) ==
    out' = [op |-> "predict_verify", arg |-> x,
            result |-> IF IsExc(model) THEN model ELSE Prediction(predict_verify(model, x)),
            leaves |-> IF IsExc(model) \/ "trees" \notin DOMAIN model THEN <<>>
                       ELSE [i \in DOMAIN model.trees |-> predict_tree_verify(model.trees[i], x)]]

\* verify_model: load_model(model_path), then predict(model, features)
VerifyPredict ==
    /\ disk.exists
    /\ \E model \in {json_load(disk.text)} : \E x \in Vectors : VerifyWith(model, x)
    /\ UNCHANGED <<rng, forest, exported, disk, model_data, model_loaded, hist>>

\* api: load_model() at startup and on POST /model/reload
LoadModel ==
    /\ LET loaded == load_model(disk, model_data, model_loaded)
       IN  /\ model_data' = loaded.model_data
           /\ model_loaded' = loaded.model_loaded
           /\ out' = [op |-> "load_model", arg |-> None, result |-> [ok |-> loaded.result], leaves |-> <<>>]
    /\ UNCHANGED <<rng, forest, exported, disk, hist>>

\* api: make_prediction(features) (POST /predict)
MakePrediction(a) ==
    /\ out' = [op |-> "make_prediction", arg |-> a,
               result |-> make_prediction(a, model_data, model_loaded),
               leaves |-> IF model_loaded /\ Truthy(model_data) /\ "trees" \in DOMAIN model_data
                          THEN [i \in DOMAIN model_data.trees |->
                                   predict_tree(model_data.trees[i], FeatureDict(a))]
                          ELSE <<>>]
    /\ UNCHANGED <<rng, forest, exported, disk, model_data, model_loaded, hist>>

NextPipeline ==
    \/ \E n \in 1..MaxNTrees, d \in DataIds, t \in TestIds, s \in 0..(NumSeeds - 1) : TrainRun(n, d, t, s)
    \/ \E x \in Vectors : PredictTrain(x)
    \/ VerifyPredict
    \/ LoadModel
    \/ \E a \in Assets : MakePrediction(a)

SpecPipeline == InitPipeline /\ [][NextPipeline]_vars

---------------------------------------------------------------------------
(* Documents from elsewhere: model_params.json is written by hand or by    *)
(* another tool, and the API and the verification script read it           *)

LeafHigh == [type |-> "leaf", prediction |-> "high", probability |-> 8000, days |-> 20, samples |-> 5]
LeafLow == [type |-> "leaf", prediction |-> "low", probability |-> 1000, days |-> 300, samples |-> 7]
SplitAge == [type |-> "split", feature |-> "asset_age_months", threshold |-> 90000,
             left |-> LeafLow, right |-> LeafHigh]
\* a split under a split
SplitDeep == [type |-> "split", feature |-> "days_since_last_maintenance", threshold |-> 200000,
              left |-> SplitAge, right |-> LeafHigh]

\* d without the key k
Without(d, k) == [x \in DOMAIN d \ {k} |-> d[x]]

\* a forest document of the given trees, as export_to_json lays it out
Doc(trees) ==
    [model_type |-> "random_forest", n_trees |-> Len(trees), trees |-> trees,
     feature_importances |-> <<>>,
     metadata |-> [trained_on |-> 12, tested_on |-> 3, accuracy |-> [v |-> 8000],
                   features |-> numeric_features,
                   categorical_features |-> categorical_features,
                   target_classes |-> target_classes]]

\* documents in the format
GoodDocs == { Doc(<<LeafHigh>>), Doc(<<SplitAge, LeafLow>>), Doc(<<SplitDeep, LeafLow, LeafHigh>>) }

\* documents with one node out of the format
BadDocs ==
    { Doc(<<Without(LeafHigh, "prediction")>>),
      Doc(<<Without(LeafHigh, "probability")>>),
      Doc(<<LeafLow, Without(LeafHigh, "days")>>),
      Doc(<<[SplitAge EXCEPT !.type = "branch"]>>),
      Doc(<<Without(SplitAge, "feature")>>),
      Doc(<<Without(SplitAge, "threshold")>>),
      Doc(<<Without(SplitAge, "left")>>),
      Doc(<<Without(SplitAge, "right"), LeafLow>>) }

Docs == GoodDocs \cup BadDocs

InitDocs ==
    /\ rng = 0
    /\ forest = None
    /\ exported = None
    /\ disk = NoFile
    /\ model_data = None
    /\ model_loaded = FALSE
    /\ out = Idle
    /\ hist = NoHist

\* somebody puts a document in place of model_params.json
WriteDoc(doc) ==
    /\ disk' = [exists |-> TRUE, text |-> json_dump(doc)]
    /\ out' = [op |-> "write", arg |-> None, result |-> None, leaves |-> <<>>]
    /\ UNCHANGED <<rng, forest, exported, model_data, model_loaded, hist>>

NextDocs ==
    \/ \E doc \in Docs : WriteDoc(doc)
    \/ VerifyPredict
    \/ LoadModel
    \/ \E a \in Assets : MakePrediction(a)

SpecDocs == InitDocs /\ [][NextDocs]_vars

---------------------------------------------------------------------------
(* The scripts from their CSV files *)

\* a CSV cell: its text, by what float() and int() make of it ("word": neither)
Cell(kind, v) == [kind |-> kind, v |-> v]

\* float(text) and int(text)
py_float(cell) == IF cell.kind \in {"int", "float"} THEN cell.v ELSE Raise("ValueError")
py_int(cell) == IF cell.kind = "int" THEN cell.v ELSE Raise("ValueError")

\* the first of a sequence of values that is an exception, None without one
FirstExc(values) ==
    IF \E i \in DOMAIN values : IsExc(values[i])
    THEN values[CHOOSE i \in DOMAIN values :
                    IsExc(values[i]) /\ \A j \in 1..(i - 1) : ~IsExc(values[j])]
    ELSE None

\* row[key]: the cell, KeyError without the column
Column(row, key) == IF key \in DOMAIN row THEN row[key] ELSE Raise("KeyError")

\* float(row[key])
FloatColumn(row, key) ==
    IF key \notin DOMAIN row THEN Raise("KeyError")
    ELSE IF row[key].kind \in {"int", "float"} THEN [v |-> py_float(row[key])]
    ELSE Raise("ValueError")

\* train_model.preprocess_features(row): the dict entries are evaluated in order
preprocess_features(row) ==
    LET numeric == [i \in DOMAIN numeric_features |-> FloatColumn(row, numeric_features[i])]
        categorical == [i \in DOMAIN categorical_features |-> Column(row, categorical_features[i])]
        failed == FirstExc(numeric \o categorical)
    IN  IF failed # None THEN failed
        ELSE [k \in Range(numeric_features) \cup Range(categorical_features) |->
                IF k \in Range(numeric_features) THEN py_float(row[k]) ELSE row[k].v]

\* verify_model.preprocess_features(row): the numeric columns only
preprocess_features_verify(row) ==
    LET numeric == [i \in DOMAIN numeric_features |-> FloatColumn(row, numeric_features[i])]
        failed == FirstExc(numeric)
    IN  IF failed # None THEN failed
        ELSE [k \in Range(numeric_features) |-> py_float(row[k])]

\* get_target(row): risk_level is taken as it stands
get_target(row) ==
    LET probability == FloatColumn(row, "failure_probability")
        level == Column(row, "risk_level")
        days == IF "estimated_days_to_failure" \notin DOMAIN row THEN Raise("KeyError")
                ELSE IF row.estimated_days_to_failure.kind = "int"
                THEN [v |-> py_int(row.estimated_days_to_failure)]
                ELSE Raise("ValueError")
        failed == FirstExc(<<probability, level, days>>)
    IN  IF failed # None THEN failed
        ELSE [failure_probability |-> probability.v,
              risk_level |-> level.v,
              estimated_days_to_failure |-> days.v]

\* {'features': preprocess_features(row), 'target': get_target(row)}
Sample(row) ==
    LET failed == FirstExc(<<preprocess_features(row), get_target(row)>>)
    IN  IF failed # None THEN failed
        ELSE [features |-> preprocess_features(row), target |-> get_target(row)]

\* the list comprehensions of main over the rows of a file: the samples, or
\* the exception of the first row that raises
Samples(rows) ==
    LET failed == FirstExc([i \in DOMAIN rows |-> Sample(rows[i])])
    IN  IF failed # None THEN [raised |-> failed, value |-> <<>>]
        ELSE [raised |-> None, value |-> [i \in DOMAIN rows |-> Sample(rows[i])]]

\* the CSV line of a sample, as generate_training_data writes it
CsvRow(sample) ==
    [k \in Range(numeric_features) \cup Range(categorical_features)
            \cup {"failure_probability", "risk_level", "estimated_days_to_failure"} |->
        IF k \in Range(numeric_features) THEN Cell("float", sample.features[k])
        ELSE IF k \in Range(categorical_features) THEN Cell("word", sample.features[k])
        ELSE IF k = "failure_probability" THEN Cell("float", sample.target.failure_probability)
        ELSE IF k = "risk_level" THEN Cell("word", sample.target.risk_level)
        ELSE Cell("int", sample.target.estimated_days_to_failure)]

\* a CSV file of the given samples, and no file
CsvFile(samples) == [exists |-> TRUE, rows |-> [i \in DOMAIN samples |-> CsvRow(samples[i])]]
NoCsv == [exists |-> FALSE, rows |-> <<>>]

\* a file with one cell of row i replaced
WithCell(file, i, key, cell) == [file EXCEPT !.rows[i][key] = cell]

\* train_data.csv as it may be found
TrainFiles ==
    [absent |-> NoCsv,
     empty |-> CsvFile(DataEmpty),
     mixed |-> CsvFile(DataMixed),
     oneclass |-> CsvFile(DataOneClass),
     nocolumn |-> [exists |-> TRUE,
                   rows |-> [i \in DOMAIN DataMixed |-> Without(CsvRow(DataMixed[i]), "humidity_level_avg")]],
     badnumber |-> WithCell(CsvFile(DataMixed), 2, "asset_age_months", Cell("word", "n/a")),
     baddays |-> WithCell(CsvFile(DataMixed), 12, "estimated_days_to_failure", Cell("float", 120)),
     badlabel |-> WithCell(CsvFile(DataMixed), 4, "risk_level", Cell("word", "critical"))]
TrainFileIds == DOMAIN TrainFiles


\* test_data.csv as it may be found
TestFiles ==
    [absent |-> NoCsv,
     empty |-> CsvFile(TestEmpty),
     small |-> CsvFile(TestSmall),
     nohigh |-> CsvFile(<<Row(20000, 30000, "low", 1100, 290), Row(90000, 200000, "medium", 5000, 90)>>),
     badlabel |-> WithCell(CsvFile(TestSmall), 1, "risk_level", Cell("word", "critical"))]
TestFileIds == DOMAIN TestFiles

\* how a run of a script ended: the exception that ended it (None when it
\* returned), whether fit was called and whether model_params.json was written
Ended(raised, fit_called, wrote, model, s, text) ==
    [raised |-> raised, fit_called |-> fit_called, wrote |-> wrote,
     model |-> model, rng |-> s, text |-> text]

\* the evaluation step of train_model.main raises at risk_total[actual] on
\* a label that is none of high, medium, low
EvaluationRaises(test_data) ==
    \E i \in DOMAIN test_data : test_data[i].target.risk_level \notin Range(target_classes)

\* train_model.main after model.fit(train_data), the samples loaded
MainAfterFit(fitted, train_data, test_data) ==
    IF test_data # <<>> /\ EvaluationRaises(test_data)
    THEN Ended(Raise("KeyError"), TRUE, FALSE, fitted.self, fitted.rng, <<>>)
    ELSE Ended(None, TRUE, TRUE, fitted.self, fitted.rng,
               AfterFit(fitted, train_data, test_data).text)

\* train_model.main after both list comprehensions
MainAfterLoad(n, train, test, s) ==
    IF train.raised # None THEN Ended(train.raised, FALSE, FALSE, None, s, <<>>)
    ELSE IF test.raised # None THEN Ended(test.raised, FALSE, FALSE, None, s, <<>>)
    ELSE MainAfterFit(fit(NewForest(n), train.value, s), train.value, test.value)

\* train_model.main with SimpleRandomForest(n_trees = n), the two CSV files
\* as found and the generator in state s
main(n, train_file, test_file, s) ==
    IF ~train_file.exists THEN Ended(None, FALSE, FALSE, None, s, <<>>)
    ELSE MainAfterLoad(n, Samples(train_file.rows),
                       Samples(IF test_file.exists THEN test_file.rows ELSE <<>>), s)

\* every run of main the bounds allow
MainRuns ==
    [n \in 1..MaxNTrees, f \in TrainFileIds, t \in TestFileIds, s \in 0..(NumSeeds - 1) |->
        main(n, TrainFiles[f], TestFiles[t], s)]

---------------------------------------------------------------------------
(* scripts/verify_model.py: main *)

\* the classes in the order the report lists them
ReportLevels == << "high", "medium", "low" >>

\* one turn of the evaluation loop: the actual and the predicted class of a
\* row, or the exception that ends the loop there
RowOutcome(model, row) ==
    LET features == preprocess_features_verify(row)
    IN  IF IsExc(features) THEN features
        ELSE LET pred == predict_verify(model, features)
             IN  IF IsExc(pred) THEN pred
                 ELSE IF "risk_level" \notin DOMAIN row THEN Raise("KeyError")
                 ELSE IF row.risk_level.v \notin Range(ReportLevels) THEN Raise("KeyError")
                 ELSE IF pred.risk_level \notin Range(ReportLevels) THEN Raise("KeyError")
                 ELSE [actual |-> row.risk_level.v, predicted |-> pred.risk_level]

\* confusion[actual][predicted] after the loop
Confusion(outcomes, actual, predicted) ==
    Cardinality({i \in DOMAIN outcomes :
                    outcomes[i].actual = actual /\ outcomes[i].predicted = predicted})

\* risk_total[level] after the loop
RiskTotal(outcomes, level) == Cardinality({i \in DOMAIN outcomes : outcomes[i].actual = level})

\* the "Precision & Recall" line of one class, in percent; class_acc is the
\* "Per-Class Accuracy" line, None when the line is not printed
LevelReport(outcomes, level) ==
    LET hit == Confusion(outcomes, level, level)
        pred_total == Cardinality({i \in DOMAIN outcomes : outcomes[i].predicted = level})
        risk_total == RiskTotal(outcomes, level)
        precision == IF pred_total > 0 THEN Rat(hit * 100, pred_total) ELSE RatZero
        recall == IF risk_total > 0 THEN Rat(hit * 100, risk_total) ELSE RatZero
        f1 == IF RatLess(RatZero, RatAdd(precision, recall))
              THEN RatDiv(RatMul([n |-> 2, d |-> 1], RatMul(precision, recall)),
                          RatAdd(precision, recall))
              ELSE RatZero
    IN  [class_acc |-> IF risk_total > 0 THEN Rat(hit * 100, risk_total) ELSE None,
         precision |-> precision, recall |-> recall, f1 |-> f1]

\* what the evaluation prints after the loop: accuracy = correct / total * 100
\* comes first and divides by len(test_data)
EvaluationReport(outcomes) ==
    IF Len(outcomes) = 0 THEN Raise("ZeroDivisionError")
    ELSE [accuracy |-> Rat(Cardinality({i \in DOMAIN outcomes :
                                            outcomes[i].actual = outcomes[i].predicted}) * 100,
                           Len(outcomes)),
          total |-> Len(outcomes),
          levels |-> [level \in Range(ReportLevels) |-> LevelReport(outcomes, level)]]

\* step [4/5] of main on the rows of test_data.csv
Evaluate(model, rows) ==
    LET failed == FirstExc([i \in DOMAIN rows |-> RowOutcome(model, rows[i])])
    IN  IF failed # None THEN failed
        ELSE EvaluationReport([i \in DOMAIN rows |-> RowOutcome(model, rows[i])])

\* the feature dicts of test_cases in step [5/5]
VerifyCase(age, since, count, usage, temp, humidity, outages, rating, building, load) ==
    [asset_age_months |-> age, days_since_last_maintenance |-> since,
     total_maintenance_count |-> count, avg_monthly_usage_hours |-> usage,
     ambient_temperature_avg |-> temp, humidity_level_avg |-> humidity,
     power_outage_events_last_year |-> outages, manufacturer_rating |-> rating,
     building_age_years |-> building, seasonal_load_factor |-> load]
test_cases ==
    << VerifyCase(12000, 30000, 1000, 200000, 25000, 50000, 0, 5000, 2000, 800),
       VerifyCase(180000, 400000, 25000, 600000, 30000, 70000, 3000, 2000, 20000, 1400),
       VerifyCase(60000, 120000, 8000, 300000, 28000, 60000, 1000, 3000, 10000, 1100) >>

\* how verify_model.main ended: the exception (None when it returned), the
\* step it was in, and the evaluation report (None when none was made)
VerifyEnded(raised, stage, report) == [raised |-> raised, stage |-> stage, report |-> report]

\* main from the summary on: model['metadata']['accuracy'] < 70
VerifySummary(model, report) ==
    IF model.metadata.accuracy = None THEN VerifyEnded(Raise("TypeError"), "summary", report)
    ELSE VerifyEnded(None, "done", report)

\* main from step [5/5] on
VerifySamples(model, report) ==
    LET failed == FirstExc([i \in DOMAIN test_cases |-> predict_verify(model, test_cases[i])])
    IN  IF failed # None THEN VerifyEnded(failed, "samples", report)
        ELSE VerifySummary(model, report)

\* main from step [4/5] on, the report of the evaluation given
VerifyAfterEvaluation(model, report) ==
    IF IsExc(report) THEN VerifyEnded(report, "evaluation", None)
    ELSE VerifySamples(model, report)

\* main after load_model(model_path)
VerifyLoaded(model, test_file) ==
    IF IsExc(model) THEN VerifyEnded(model, "load", None)
    ELSE IF {"model_type", "n_trees", "metadata"} \ DOMAIN model # {}
    THEN VerifyEnded(Raise("KeyError"), "load", None)
    ELSE IF {"trained_on", "accuracy"} \ DOMAIN model.metadata # {}
    THEN VerifyEnded(Raise("KeyError"), "load", None)
    ELSE IF {"trees", "feature_importances"} \ DOMAIN model # {}
    THEN VerifyEnded(Raise("KeyError"), "structure", None)
    ELSE IF ~test_file.exists THEN VerifySamples(model, None)
    ELSE VerifyAfterEvaluation(model, Evaluate(model, test_file.rows))

\* verify_model.main with model_params.json and test_data.csv as found
verify_main(file, test_file) ==
    IF ~file.exists THEN VerifyEnded(None, "load", None)
    ELSE VerifyLoaded(json_load(file.text), test_file)

---------------------------------------------------------------------------
(* The scripts run from the command line: train_model.py reads the CSV     *)
(* files and writes model_params.json, verify_model.py reads it            *)

InitScripts ==
    /\ rng = 0
    /\ forest = None
    /\ exported = None
    /\ disk = NoFile
    /\ model_data = None
    /\ model_loaded = FALSE
    /\ out = Idle
    /\ hist = NoHist

\* python train_model.py
TrainScript(n, f, t, s) ==
    /\ LET run == MainRuns[n, f, t, s]
       IN  /\ forest' = run.model
           /\ rng' = run.rng
           /\ disk' = IF run.wrote THEN [exists |-> TRUE, text |-> run.text] ELSE disk
           /\ out' = [op |-> "main", arg |-> [train |-> f, test |-> t],
                      result |-> [raised |-> run.raised, fit_called |-> run.fit_called,
                                  wrote |-> run.wrote],
                      leaves |-> <<>>]
    /\ UNCHANGED <<exported, model_data, model_loaded, hist>>

\* python verify_model.py
VerifyScript(t) ==
    /\ out' = [op |-> "verify_main", arg |-> [test |-> t],
               result |-> verify_main(disk, TestFiles[t]), leaves |-> <<>>]
    /\ UNCHANGED <<rng, forest, exported, disk, model_data, model_loaded, hist>>

NextScripts ==
    \/ \E n \in 1..MaxNTrees, f \in TrainFileIds, t \in TestFileIds, s \in 0..(NumSeeds - 1) :
          TrainScript(n, f, t, s)
    \/ \E t \in TestFileIds : VerifyScript(t)

SpecScripts == InitScripts /\ [][NextScripts]_vars

---------------------------------------------------------------------------
(* One call of _build_tree, as fit makes it on a bootstrap sample and as   *)
(* _build_tree makes it on the two sides of a split                        *)

\* a larger training file: splits below the root happen, and two values of
\* asset_age_months have a third decimal
DataLarge ==
    << Row(6000, 20000, "low", 800, 320),      Row(12000, 30000, "low", 1000, 300),
       Row(18000, 45000, "low", 1100, 290),    Row(24000, 30000, "low", 1200, 280),
       Row(30000, 150000, "medium", 3500, 140), Row(36000, 60000, "low", 1500, 260),
       Row(42000, 75000, "low", 1700, 255),    Row(48006, 200000, "medium", 4000, 120),
       Row(54000, 80000, "low", 1900, 245),    Row(60000, 90000, "low", 2000, 240),
       Row(66000, 250000, "medium", 4500, 100), Row(72000, 110000, "medium", 4200, 110),
       Row(78000, 120000, "medium", 4400, 105), Row(84007, 130000, "medium", 4600, 98),
       Row(90000, 200000, "medium", 5000, 90), Row(96000, 310000, "high", 7800, 35),
       Row(108000, 140000, "medium", 5200, 85), Row(120000, 300000, "high", 8000, 30),
       Row(132000, 300000, "high", 8500, 25),  Row(144000, 30000, "medium", 5500, 80),
       Row(156000, 350000, "high", 8800, 20),  Row(168000, 400000, "high", 9000, 15),
       Row(174000, 380000, "high", 9200, 12),  Row(180000, 400000, "high", 9500, 7) >>

BuildSets == [empty |-> DataEmpty, oneclass |-> DataOneClass, mixed |-> DataMixed,
              large |-> DataLarge]
BuildIds == DOMAIN BuildSets

\* the depths _build_tree is called at: the root, below it, the last depth
\* that may split, and the depth that may not
BuildDepths == {0, 1, MaxDepth - 1, MaxDepth}

InitBuild ==
    /\ rng \in 0..(NumSeeds - 1)
    /\ forest = NewForest(1)
    /\ exported = None
    /\ disk = NoFile
    /\ model_data = None
    /\ model_loaded = FALSE
    /\ out = Idle
    /\ hist = NoHist

\* what the call leaves behind: the node returned, feature_importances with
\* the gains added, the generator after the draws
Built(d, sample, depth, built) ==
    /\ forest' = [NewForest(1) EXCEPT !.feature_importances = built.fi]
    /\ rng' = built.rng
    /\ out' = [op |-> "_build_tree",
               arg |-> [set |-> d, data |-> sample.value, depth |-> depth, s |-> sample.rng],
               result |-> built.tree, leaves |-> <<>>]

\* sample = random.choices(data, k=len(data)); a new object's
\* _build_tree(sample, depth, max_depth=5)
BuildTree(d, depth) ==
    /\ \E sample \in {random_choices(BuildSets[d], Len(BuildSets[d]), rng)} :
          \E built \in {build_tree(sample.value, depth, MaxDepth, <<>>, sample.rng)} :
             Built(d, sample, depth, built)
    /\ UNCHANGED <<exported, disk, model_data, model_loaded, hist>>

NextBuild == \E d \in BuildIds, depth \in BuildDepths : BuildTree(d, depth)

SpecBuild == InitBuild /\ [][NextBuild]_vars

---------------------------------------------------------------------------
(* Python floats.  _calculate_split_gain computes in binary64: every       *)
(* division, product, sum and difference is the exact result rounded to a  *)
(* significand of 53 bits, halves to even.  Significands do not fit the    *)
(* integers TLC computes with and are kept as sequences of limbs, least limb  *)
(* first.  The exponents met here are far from the ends of the range.      *)

Limb == 2^13
Mantissa == 53

\* a natural number as limbs, without leading zero limbs
Trim(a) ==
    IF \A i \in DOMAIN a : a[i] = 0 THEN <<>>
    ELSE SubSeq(a, 1, CHOOSE i \in DOMAIN a : a[i] # 0 /\ \A j \in (i + 1)..Len(a) : a[j] = 0)

\* limbs out of range brought into range, carries (and borrows) moved up
RECURSIVE Carry(_, _)
Carry(raw, c) ==
    IF raw = <<>> THEN (IF c = 0 THEN <<>> ELSE <<c % Limb>> \o Carry(<<>>, c \div Limb))
    ELSE <<(Head(raw) + c) % Limb>> \o Carry(Tail(raw), (Head(raw) + c) \div Limb)

LimbAt(a, i) == IF i \in DOMAIN a THEN a[i] ELSE 0
LongerLen(a, b) == IF Len(a) > Len(b) THEN Len(a) ELSE Len(b)

BigAdd(a, b) == Trim(Carry([i \in 1..LongerLen(a, b) |-> LimbAt(a, i) + LimbAt(b, i)], 0))
\* a - b for a >= b
BigSub(a, b) == Trim(Carry([i \in 1..LongerLen(a, b) |-> LimbAt(a, i) - LimbAt(b, i)], 0))
BigMul(a, b) ==
    IF a = <<>> \/ b = <<>> THEN <<>>
    ELSE Trim(Carry([k \in 1..(Len(a) + Len(b) - 1) |->
                        SumSeq([i \in 1..Len(a) |-> a[i] * LimbAt(b, k - i + 1)])], 0))
BigLess(a, b) ==
    \/ Len(a) < Len(b)
    \/ /\ Len(a) = Len(b)
       /\ \E i \in DOMAIN a : a[i] < b[i] /\ \A j \in (i + 1)..Len(a) : a[j] = b[j]

\* a * 2^k and floor(a / 2^k)
ShiftLeft(a, k) ==
    [i \in 1..(k \div 13) |-> 0] \o Carry([i \in DOMAIN a |-> a[i] * 2^(k % 13)], 0)
ShiftRight(a, k) ==
    Trim([i \in 1..(Len(a) - (k \div 13)) |->
            (LimbAt(a, i + (k \div 13)) \div 2^(k % 13))
            + (LimbAt(a, i + (k \div 13) + 1) % 2^(k % 13)) * 2^(13 - (k % 13))])

\* the number of bits of a
BitLen(a) ==
    IF a = <<>> THEN 0
    ELSE 13 * (Len(a) - 1) + (CHOOSE k \in 1..13 : 2^(k - 1) <= a[Len(a)] /\ a[Len(a)] < 2^k)

\* the number of zero bits a ends with (a > 0)
ZeroBits(a) ==
    LET i == CHOOSE n \in DOMAIN a : a[n] # 0 /\ \A j \in 1..(n - 1) : a[j] = 0
    IN  13 * (i - 1) + (CHOOSE k \in 0..12 : a[i] % 2^k = 0 /\ a[i] % 2^(k + 1) # 0)

\* floor(a / t) and a % t for a small divisor t, from limb i of a down
RECURSIVE DivSmall(_, _, _, _, _)
DivSmall(a, i, t, rem, acc) ==
    IF i = 0 THEN [q |-> Trim(acc), r |-> rem]
    ELSE DivSmall(a, i - 1, t, (rem * Limb + a[i]) % t, <<(rem * Limb + a[i]) \div t>> \o acc)

\* a float: sign * m * 2^e with m odd, or zero
FZero == [s |-> 1, m |-> <<>>, e |-> 0]
Float(s, m, e) ==
    IF m = <<>> THEN FZero ELSE [s |-> s, m |-> ShiftRight(m, ZeroBits(m)), e |-> e + ZeroBits(m)]

\* m * 2^e with the bits of m below `drop` cut off and rounded: up when they
\* are above the half, or at the half with more beyond (sticky) or with an
\* odd result
RoundAt(s, m, e, drop, sticky) ==
    LET kept == ShiftRight(m, drop)
        low == BigSub(m, ShiftLeft(kept, drop))
        half == ShiftLeft(<<1>>, drop - 1)
        up == \/ BigLess(half, low)
              \/ low = half /\ (sticky \/ LimbAt(kept, 1) % 2 = 1)
    IN  Float(s, IF up THEN BigAdd(kept, <<1>>) ELSE kept, e + drop)

\* the float nearest to sign * m * 2^e (* plus a little, when sticky *)
Round(s, m, e, sticky) ==
    IF BitLen(m) <= Mantissa THEN Float(s, m, e)
    ELSE RoundAt(s, m, e, BitLen(m) - Mantissa, sticky)

\* the quotient of the division: 64 more bits than the dividend
Quotient(s, d) == Round(s, d.q, -64, d.r # 0)

\* c / t for ints c and t > 0
FDivInt(c, t) ==
    IF c = 0 THEN FZero
    ELSE Quotient(IF c < 0 THEN -1 ELSE 1,
                  DivSmall(ShiftLeft(<<Abs(c)>>, 64), Len(ShiftLeft(<<Abs(c)>>, 64)), t, 0, <<>>))

FMul(x, y) == Round(x.s * y.s, BigMul(x.m, y.m), x.e + y.e, FALSE)
FNeg(x) == IF x.m = <<>> THEN x ELSE [x EXCEPT !.s = -x.s]

\* x + y with both significands brought to the exponent e
FAddAt(x, y, e) ==
    LET a == ShiftLeft(x.m, x.e - e)
        b == ShiftLeft(y.m, y.e - e)
    IN  IF x.s = y.s THEN Round(x.s, BigAdd(a, b), e, FALSE)
        ELSE IF BigLess(a, b) THEN Round(y.s, BigSub(b, a), e, FALSE)
        ELSE Round(x.s, BigSub(a, b), e, FALSE)
FAdd(x, y) ==
    IF x.m = <<>> THEN y
    ELSE IF y.m = <<>> THEN x
    ELSE FAddAt(x, y, IF x.e < y.e THEN x.e ELSE y.e)
FSub(x, y) == FAdd(x, FNeg(y))
FNegative(x) == x.m # <<>> /\ x.s = -1

\* the loop of sum(...) in entropy: (c/total) * (c/total) added class by
\* class in the order of the Counter, from class i on
RECURSIVE SumSquares(_, _, _, _)
AddSquare(acc, p) == FAdd(acc, FMul(p, p))
SumSquares(counts, total, i, acc) ==
    IF i > Len(counts) THEN acc
    ELSE SumSquares(counts, total, i + 1, AddSquare(acc, FDivInt(counts[i].v, total)))

\* entropy(subset) as the floats give it
entropy_float(subset) ==
    IF Len(subset) = 0 THEN FZero
    ELSE FNeg(SumSquares(Counter([i \in DOMAIN subset |-> subset[i].target.risk_level]),
                         Len(subset), 1, FZero))

\* (len(left)/len(data)) * entropy(left) + (len(right)/len(data)) * entropy(right)
WeightedChild(n_left, n_right, e_left, e_right) ==
    FAdd(FMul(FDivInt(n_left, n_left + n_right), e_left),
         FMul(FDivInt(n_right, n_left + n_right), e_right))

GainOfSides(data, left, right) ==
    IF Len(left) = 0 \/ Len(right) = 0 THEN FZero
    ELSE FSub(entropy_float(data),
              WeightedChild(Len(left), Len(right), entropy_float(left), entropy_float(right)))

\* _calculate_split_gain(data, feature, threshold), the float returned
calculate_split_gain_float(data, feature, threshold) ==
    GainOfSides(data, LeftOf(data, feature, threshold), RightOf(data, feature, threshold))

---------------------------------------------------------------------------
(* Calls of _calculate_split_gain and of _find_best_split on an object     *)

\* the numbers of low, medium and high samples on one side of a threshold
SideCounts ==
    { <<0, 0, 0>>, <<1, 0, 0>>, <<0, 3, 0>>, <<0, 0, 2>>, <<2, 1, 0>>,
      <<1, 6, 0>>, <<2, 12, 0>>, <<1, 3, 1>>, <<2, 6, 2>>, <<3, 3, 3>> }

\* samples of those classes, in that order, with asset_age_months = age
SideRows(counts, age) ==
    [i \in 1..(counts[1] + counts[2] + counts[3]) |->
        Row(age, 30000,
            IF i <= counts[1] THEN "low" ELSE IF i <= counts[1] + counts[2] THEN "medium" ELSE "high",
            5000, 100)]

\* the same samples without the feature in their dicts
Featureless(rows, feature) ==
    [i \in DOMAIN rows |->
        [rows[i] EXCEPT !.features = [k \in DOMAIN rows[i].features \ {feature} |-> rows[i].features[k]]]]

\* the lists given to _find_best_split as features
FeatureLists ==
    { numeric_features, <<>>, <<"asset_age_months">>,
      <<"total_maintenance_count", "manufacturer_rating">>,
      <<"days_since_last_maintenance", "total_maintenance_count", "asset_age_months">> }

InitSplit ==
    /\ rng \in 0..(NumSeeds - 1)
    /\ forest = NewForest(1)
    /\ exported = None
    /\ disk = NoFile
    /\ model_data = None
    /\ model_loaded = FALSE
    /\ out = Idle
    /\ hist = NoHist

\* the data of a call: the first samples are below the threshold (at 10.0, or
\* without the feature) and the last are at it
GainData(l, r, missing) ==
    (IF missing THEN Featureless(SideRows(l, 10000), "asset_age_months")
     ELSE SideRows(l, 10000)) \o SideRows(r, 50000)

\* what self._calculate_split_gain(data, 'asset_age_months', 50.0) returns,
\* with the exact value of the same expression and the sizes of the sides
GainResult(data) ==
    [gain |-> calculate_split_gain_float(data, "asset_age_months", 50000),
     exact |-> calculate_split_gain(data, "asset_age_months", 50000),
     n_left |-> Len(LeftOf(data, "asset_age_months", 50000)),
     n_right |-> Len(RightOf(data, "asset_age_months", 50000))]

GainRuns ==
    [l \in SideCounts, r \in SideCounts, missing \in BOOLEAN |-> GainResult(GainData(l, r, missing))]

CalculateSplitGain(l, r, missing) ==
    /\ out' = [op |-> "_calculate_split_gain",
               arg |-> [left |-> l, right |-> r, missing |-> missing],
               result |-> GainRuns[l, r, missing],
               leaves |-> <<>>]
    /\ UNCHANGED <<rng, forest, exported, disk, model_data, model_loaded, hist>>

\* self._find_best_split(data, features)
BestSplitCall(d, features, found) ==
    /\ rng' = found.rng
    /\ out' = [op |-> "_find_best_split",
               arg |-> [set |-> d, features |-> features, s |-> rng],
               result |-> found.best, leaves |-> <<>>]
    /\ UNCHANGED <<forest, exported, disk, model_data, model_loaded, hist>>

FindBestSplit(d, features) ==
    BestSplitCall(d, features, find_best_split(BuildSets[d], features, rng))

NextGain == \E l \in SideCounts, r \in SideCounts, missing \in BOOLEAN : CalculateSplitGain(l, r, missing)

SpecGain == InitSplit /\ [][NextGain]_vars

NextSplit == \E d \in BuildIds, features \in FeatureLists : FindBestSplit(d, features)

SpecSplit == InitSplit /\ [][NextSplit]_vars

---------------------------------------------------------------------------
(* The API process: model_params.json changes on disk, load_model runs at   *)
(* startup and on POST /model/reload, POST /predict and POST /predict/batch *)
(* call make_prediction.  Every handler is an async def without an await    *)
(* in it, so the event loop runs each call from its first line to its last *)
(* before it starts another: an action is one whole request.               *)

\* json.dump of a document without its n_trees member
DumpWithoutNTrees(doc) ==
    LET text == json_dump(doc)
        member == CHOOSE i \in DOMAIN text : text[i].t = "str" /\ text[i].v = "n_trees"
    IN  [i \in 1..(Len(text) - 2) |-> IF i < member THEN text[i] ELSE text[i + 2]]

\* what model_params.json can hold when load_model reads it
ApiFiles ==
    [absent |-> NoFile,
     invalid |-> [exists |-> TRUE, text |-> <<Punct("{"), Garbage>>],
     null |-> [exists |-> TRUE, text |-> <<Null>>],
     one |-> [exists |-> TRUE, text |-> json_dump(Doc(<<LeafHigh>>))],
     two |-> [exists |-> TRUE, text |-> json_dump(Doc(<<SplitAge, LeafLow>>))],
     no_n_trees |-> [exists |-> TRUE, text |-> DumpWithoutNTrees(Doc(<<LeafLow, LeafLow, LeafLow>>))],
     no_trees |-> [exists |-> TRUE, text |-> json_dump(Doc(<<>>))]]

\* the assets of the POST /predict/batch requests
Batches ==
    { <<>>, <<Asset(30000, 30000)>>, <<Asset(150000, 300000), Asset(30000, 30000)>>,
      <<Asset(90000, 200000), Asset(89990, 299990), Asset(150000, 300000)>> }

\* somebody replaces or removes model_params.json
PutFile(f) ==
    /\ disk' = ApiFiles[f]
    /\ out' = [op |-> "write", arg |-> f, result |-> None, leaves |-> <<>>]
    /\ UNCHANGED <<rng, forest, exported, model_data, model_loaded, hist>>

\* what predict_batch returns: the results in the order of the assets, or
\* the first exception of make_prediction (answered with status 500)
BatchResponse(results) ==
    IF \E i \in DOMAIN results : IsExc(results[i])
    THEN [status |-> 500, results |-> <<>>]
    ELSE [status |-> 200, results |-> results]

\* POST /predict/batch: results = [make_prediction(asset) for asset in request.assets]
PredictBatch(assets) ==
    /\ out' = [op |-> "predict_batch", arg |-> assets,
               result |-> BatchResponse([i \in DOMAIN assets |-> make_prediction(assets[i], model_data, model_loaded)]),
               leaves |-> <<>>]
    /\ UNCHANGED <<rng, forest, exported, disk, model_data, model_loaded, hist>>

NextApi ==
    \/ \E f \in DOMAIN ApiFiles : PutFile(f)
    \/ LoadModel
    \/ \E a \in Assets : MakePrediction(a)
    \/ \E assets \in Batches : PredictBatch(assets)

SpecApi == InitDocs /\ [][NextApi]_vars

---------------------------------------------------------------------------
(* The evaluation loop of verify_model.main, one row of test_data.csv at a  *)
(* time.  out holds the local variables of main: the document loaded, the   *)
(* counters, and how many rows the loop has gone through.                  *)

MaxTestRows == 3

\* correct, risk_correct, risk_total and confusion as main creates them
NewCounters ==
    [processed |-> 0, raised |-> None, correct |-> 0,
     risk_correct |-> [c \in Range(ReportLevels) |-> 0],
     risk_total |-> [c \in Range(ReportLevels) |-> 0],
     confusion |-> [a \in Range(ReportLevels) |-> [p \in Range(ReportLevels) |-> 0]]]

\* a loop body that counts every row as correct
CountEveryRow(c, actual, predicted) ==
    [c EXCEPT !.processed = @ + 1,
              !.risk_total[actual] = @ + 1,
              !.confusion[actual][predicted] = @ + 1,
              !.correct = @ + 1,
              !.risk_correct[actual] = @ + 1]

\* the body of the loop from risk_total[actual] += 1 on
CountRow(c, actual, predicted) ==
    [c EXCEPT !.processed = @ + 1,
              !.risk_total[actual] = @ + 1,
              !.confusion[actual][predicted] = @ + 1,
              !.correct = IF predicted = actual THEN @ + 1 ELSE @,
              !.risk_correct[actual] = IF predicted = actual THEN @ + 1 ELSE @]

\* one turn of the loop on a row: the counters after it, or the exception
\* that ends main there
EvaluationTurn(c, outcome) ==
    IF IsExc(outcome) THEN [c EXCEPT !.raised = outcome]
    ELSE CountRow(c, outcome.actual, outcome.predicted)

\* lines of test_data.csv: three assets under each label, one label outside
\* the classes
TestRows ==
    { CsvRow(Row(age, age * 2, label, 5000, 100)) :
        age \in {20000, 100000, 150000}, label \in {"low", "medium", "high", "critical"} }

InitEvaluation ==
    /\ rng = 0
    /\ forest = None
    /\ exported = None
    /\ \E doc \in GoodDocs : disk = [exists |-> TRUE, text |-> json_dump(doc)]
    /\ model_data = None
    /\ model_loaded = FALSE
    /\ out = Idle
    /\ hist = NoHist

\* main up to the loop: model = load_model(model_path), the counters at zero
StartEvaluation ==
    /\ out' = [op |-> "evaluation", arg |-> json_load(disk.text), result |-> NewCounters, leaves |-> <<>>]
    /\ UNCHANGED <<rng, forest, exported, disk, model_data, model_loaded, hist>>

\* for row in test_data: one more row
EvaluateRow(row) ==
    /\ out.op = "evaluation"
    /\ out.result.raised = None
    /\ out.result.processed < MaxTestRows
    /\ out' = [out EXCEPT !.result = EvaluationTurn(out.result, RowOutcome(out.arg, row))]
    /\ UNCHANGED <<rng, forest, exported, disk, model_data, model_loaded, hist>>

NextEvaluation ==
    \/ StartEvaluation
    \/ \E row \in TestRows : EvaluateRow(row)

SpecEvaluation == InitEvaluation /\ [][NextEvaluation]_vars

---------------------------------------------------------------------------
(* Claims *)

InferenceOps == {"predict_train", "predict_verify", "make_prediction"}

\* the API answered from the loaded document, not from the heuristic
ApiUsedModel ==
    /\ out.op = "make_prediction"
    /\ model_loaded
    /\ Truthy(model_data)
    /\ "trees" \in DOMAIN model_data

\* the verification script had a document with trees to predict from
VerifyUsedModel ==
    /\ out.op = "predict_verify"
    /\ ~IsExc(json_load(disk.text))
    /\ "trees" \in DOMAIN json_load(disk.text)

\* the last step was an inference over trees
EngineRan == out.op = "predict_train" \/ VerifyUsedModel \/ ApiUsedModel

\* the classes of the leaves the last inference reached
LeafVotes == [i \in DOMAIN out.leaves |-> out.leaves[i].prediction]

\* C1: with a document of at least one tree loaded, make_prediction returns
\* the risk_level, failure_probability and estimated_days_to_failure that
\* SimpleRandomForest.predict returns on the same trees and the same vector,
\* whatever the leaf votes are, ties included.
C1_ApiEqualsTrainer ==
    (ApiUsedModel /\ Len(model_data.trees) >= 1)
        => out.result = predict_train([trees |-> model_data.trees], FeatureDict(out.arg))

\* C2: what verify_model.predict returns on the document read back from
\* the file a training run wrote is what SimpleRandomForest.predict returns
\* on the forest of that run, for every vector.
C2_RoundTrip ==
    out.op = "predict_verify" => out.result = predict_train(forest, out.arg)

\* C2 happens: a forest with a split was written, read back and asked
C2_RoundTripDone ==
    /\ out.op = "predict_verify"
    /\ ~IsExc(out.result)
    /\ \E i \in DOMAIN forest.trees : forest.trees[i].type = "split"
    /\ forest.n_trees = 2

\* the traversal rule: left exactly on a value strictly below the threshold,
\* an absent feature counting as 0, down to the first leaf
RECURSIVE Routed(_, _)
Routed(tree, x) ==
    IF tree.type = "leaf" THEN tree
    ELSE IF (IF tree.feature \in DOMAIN x THEN x[tree.feature] ELSE 0) < tree.threshold
         THEN Routed(tree.left, x)
         ELSE Routed(tree.right, x)

\* the trees and the vector of the last inference
TreesUsed ==
    IF out.op = "predict_train" THEN forest.trees
    ELSE IF out.op = "predict_verify" THEN json_load(disk.text).trees
    ELSE model_data.trees
VectorUsed == IF out.op = "make_prediction" THEN FeatureDict(out.arg) ELSE out.arg

\* C3: in each of the three engines every tree is left at the leaf the
\* traversal rule leads to: left on value < threshold, right otherwise (so on
\* equality), an absent feature routed as 0, stopping at the first leaf.
C3_Traversal ==
    EngineRan => \A i \in DOMAIN out.leaves : out.leaves[i] = Routed(TreesUsed[i], VectorUsed)

\* C3 happens: the API met a split whose threshold the value equals, and went right
C3_EqualWentRight ==
    /\ ApiUsedModel
    /\ \E i \in DOMAIN model_data.trees :
          /\ model_data.trees[i].type = "split"
          /\ FeatureDict(out.arg)[model_data.trees[i].feature] = model_data.trees[i].threshold
          /\ out.leaves[i] = model_data.trees[i].right

\* the number of votes for class c
VotesFor(votes, c) == Cardinality({i \in DOMAIN votes : votes[i] = c})

\* the class with the most votes, the first of low, medium, high among equals
PriorityWinner(votes) ==
    LET best == CHOOSE i \in DOMAIN target_classes :
                    /\ \A j \in DOMAIN target_classes :
                          VotesFor(votes, target_classes[j]) <= VotesFor(votes, target_classes[i])
                    /\ \A j \in 1..(i - 1) :
                          VotesFor(votes, target_classes[j]) < VotesFor(votes, target_classes[i])
    IN  target_classes[best]

Reverse(seq) == [i \in DOMAIN seq |-> seq[Len(seq) + 1 - i]]

\* C4: the risk_level of every ensemble prediction is the class with the
\* most leaf votes, ties going to the first of low, medium, high; and the
\* trees of the forest in another order give the same risk_level.
C4_VoteFixedPriority ==
    (EngineRan /\ ~IsExc(out.result))
        => /\ out.result.risk_level = PriorityWinner(LeafVotes)
           /\ out.op = "predict_train"
                 => predict_train([forest EXCEPT !.trees = Reverse(@)], out.arg).risk_level
                        = out.result.risk_level

\* whether a tree holds a split
HasSplit(tree) == tree.type = "split"

\* C5: after a fit every importance is non-negative, and the importances
\* sum to 1 when a tree of the object holds a split and to 0 when none
\* does; after the second fit on the object as after the first.
C5_ImportancesNormalized ==
    hist.fits >= 1
        => /\ \A i \in DOMAIN forest.feature_importances :
                 ~RatLess(forest.feature_importances[i].v, RatZero)
           /\ RatSum(forest.feature_importances)
                 = IF \E i \in DOMAIN forest.trees : HasSplit(forest.trees[i])
                   THEN [n |-> 1, d |-> 1] ELSE RatZero

\* C5 happens: a second fit has ended on an object with two features of importance
C5_SecondFitDone ==
    /\ hist.fits = 2
    /\ out.op = "fit"
    /\ Len(forest.feature_importances) >= 2

\* C6: a document exported after fit has as many trees as its n_trees says
C6_ExportedLenIsNTrees ==
    (exported # None /\ hist.fits >= 1)
        => Len(Deref(exported, forest).trees) = exported.n_trees

\* C7: a document export_to_json returned reads as it did when it was
\* returned, whatever fit calls came after.
C7_ExportedUnchanged ==
    exported # None => Deref(exported, forest) = hist.snapshot

\* C8: a step of inference in any of the three engines leaves the trained
\* object, the file and the loaded document as they were.
C8_InferenceKeepsForest ==
    [][out'.op \in InferenceOps => UNCHANGED <<forest, exported, disk, model_data, model_loaded>>]_vars

\* C8 happens: every engine has something to change, and the API has predicted
C8_InferenceDone ==
    /\ ApiUsedModel
    /\ forest # None
    /\ forest.trees # <<>>

RECURSIVE WellFormed(_)
WellFormed(node) ==
    /\ "type" \in DOMAIN node
    /\ \/ /\ node.type = "leaf"
          /\ {"prediction", "probability", "days"} \subseteq DOMAIN node
       \/ /\ node.type = "split"
          /\ {"feature", "threshold", "left", "right"} \subseteq DOMAIN node
          /\ WellFormed(node.left)
          /\ WellFormed(node.right)

\* C10: on a document with a node out of the format neither the API nor the
\* verification script returns a prediction.
C10_FormatViolationsFail ==
    ((VerifyUsedModel \/ ApiUsedModel)
        /\ \E i \in DOMAIN TreesUsed : ~WellFormed(TreesUsed[i]))
        => IsExc(out.result)

\* a CSV row out of the format of the training data: a column missing, a
\* numeric column that is no number, or a risk_level outside low, medium, high
MalformedRow(row) ==
    \/ \E k \in Range(numeric_features) \cup Range(categorical_features)
                \cup {"failure_probability", "risk_level", "estimated_days_to_failure"} :
          k \notin DOMAIN row
    \/ \E k \in Range(numeric_features) \cup {"failure_probability"} :
          k \in DOMAIN row /\ row[k].kind \notin {"int", "float"}
    \/ "estimated_days_to_failure" \in DOMAIN row /\ row.estimated_days_to_failure.kind # "int"
    \/ "risk_level" \in DOMAIN row /\ row.risk_level.v \notin Range(target_classes)

\* C11: when a row of train_data.csv is malformed, the run of train_model
\* ends with an error before fit is called and writes no model document.
C11_MalformedRowsFailLoad ==
    (out.op = "main" /\ TrainFiles[out.arg.train].exists
        /\ \E i \in DOMAIN TrainFiles[out.arg.train].rows :
              MalformedRow(TrainFiles[out.arg.train].rows[i]))
        => (out.result.raised # None /\ ~out.result.fit_called /\ ~out.result.wrote)

\* test_data.csv is there and holds the header line only
EmptyTestSet(t) == TestFiles[t].exists /\ Len(TestFiles[t].rows) = 0

\* C12: with a test set of zero samples the evaluation step of train_model
\* and the evaluation step of verify_model both end without raising.
C12_EmptyTestSetNoRaise ==
    /\ (out.op = "main" /\ out.result.fit_called /\ EmptyTestSet(out.arg.test))
          => out.result.raised = None
    /\ (out.op = "verify_main" /\ EmptyTestSet(out.arg.test))
          => out.result.stage # "evaluation"

\* every row of test_data.csv is labelled low, medium or high
LabelsInClasses(t) ==
    /\ TestFiles[t].exists
    /\ \A i \in DOMAIN TestFiles[t].rows :
          /\ "risk_level" \in DOMAIN TestFiles[t].rows[i]
          /\ TestFiles[t].rows[i].risk_level.v \in Range(target_classes)

\* the lines the evaluation prints for one class
SparseLevelOk(line) ==
    /\ line.class_acc = None => line.recall = RatZero
    /\ IF RatAdd(line.precision, line.recall) = RatZero
       THEN line.f1 = RatZero
       ELSE RatMul(line.f1, RatAdd(line.precision, line.recall))
               = RatMul([n |-> 2, d |-> 1], RatMul(line.precision, line.recall))

\* C13: on every test set labelled with low, medium and high only, the
\* evaluation of train_model and of verify_model ends without raising, and
\* verify_model reports recall 0 for a class without samples and
\* F1 = 2PR/(P+R), 0 when P+R = 0.
C13_SparseClassesNoRaise ==
    /\ (out.op = "main" /\ out.result.fit_called /\ LabelsInClasses(out.arg.test))
          => out.result.raised = None
    /\ (out.op = "verify_main" /\ disk.exists /\ LabelsInClasses(out.arg.test))
          => /\ out.result.stage # "evaluation"
             /\ out.result.report # None
             /\ \A level \in Range(ReportLevels) :
                   SparseLevelOk(out.result.report.levels[level])

\* the leaf of an empty subset, as the claim words it
DefaultLeaf == [type |-> "leaf", prediction |-> "medium", probability |-> 5000,
                days |-> 100, samples |-> 0]

\* the fit that just ended was the first on this object and had the data set d
FirstFitOn(d) == out.op = "fit" /\ out.arg.data = d /\ hist.fits = 1

\* C14: fit of a new forest on the empty training set leaves exactly n_trees
\* trees, each the leaf (medium, 0.5, 100, samples 0), and predict on that
\* forest returns medium, 0.5 and 100 for every feature vector.
C14_EmptyFitDefaults ==
    FirstFitOn("empty")
        => /\ Len(forest.trees) = forest.n_trees
           /\ \A i \in DOMAIN forest.trees : forest.trees[i] = DefaultLeaf
           /\ \A x \in Vectors :
                 predict_train(forest, x)
                    = [risk_level |-> "medium", failure_probability |-> 5000,
                       estimated_days_to_failure |-> 100]

C14_EmptyFitDone == FirstFitOn("empty") /\ forest.n_trees = MaxNTrees /\ forest.trees # <<>>

\* C15: fit of a new forest on a training set of one class ends with every
\* tree a single leaf predicting that class and with feature_importances
\* empty.
C15_OneClassAllLeaves ==
    FirstFitOn("oneclass")
        => /\ Len(forest.trees) = forest.n_trees
           /\ \A i \in DOMAIN forest.trees :
                 /\ forest.trees[i].type = "leaf"
                 /\ forest.trees[i].prediction = "low"
                 /\ forest.trees[i].samples = Len(DataOneClass)
           /\ forest.feature_importances = <<>>

C15_OneClassFitDone ==
    /\ FirstFitOn("oneclass")
    /\ forest.n_trees = MaxNTrees
    /\ Len(DataOneClass) >= MinSamplesToSplit
    /\ \A i \in DOMAIN DataOneClass : DataOneClass[i].target.risk_level = "low"
    /\ \E i, j \in DOMAIN DataOneClass :
          DataOneClass[i].features.asset_age_months # DataOneClass[j].features.asset_age_months

\* the probability and days values of the leaves the last inference reached
LeafValues(key) == [i \in DOMAIN out.leaves |-> out.leaves[i][key]]

\* v is the mean of values rounded to a nearest integer of its unit, and lies
\* between the least and the greatest of them
RoundedMeanOf(v, values) ==
    /\ 2 * Abs(Len(values) * v - SumSeq(values)) <= Len(values)
    /\ \E i \in DOMAIN values : values[i] <= v
    /\ \E i \in DOMAIN values : values[i] >= v

\* C16: an inference over at least one tree returns as
\* estimated_days_to_failure the mean of the days of the leaves reached,
\* rounded to a nearest integer, and as failure_probability the mean of their
\* probabilities at 4 decimals; both lie between the least and the greatest
\* leaf value.
C16_MeansOfLeaves ==
    (EngineRan /\ out.leaves # <<>> /\ ~IsExc(out.result))
        => /\ RoundedMeanOf(out.result.estimated_days_to_failure, LeafValues("days"))
           /\ RoundedMeanOf(out.result.failure_probability, LeafValues("probability"))

C16_HalfwayMean ==
    /\ ApiUsedModel
    /\ ~IsExc(out.result)
    /\ Len(out.leaves) = 2
    /\ (out.leaves[1].days + out.leaves[2].days) % 2 = 1

RECURSIVE Height(_)
\* the greatest number of split nodes on a path from the root to a leaf
Height(tree) ==
    IF tree.type = "leaf" THEN 0
    ELSE 1 + (IF Height(tree.left) > Height(tree.right) THEN Height(tree.left) ELSE Height(tree.right))

\* the value a comparison reads: features.get(feature, 0)
ValueOf(sample, feature) == Get(sample.features, feature, 0)

\* the samples _build_tree built the two subtrees of a split node from sit on
\* the sides of the threshold the node stores, at this node and below.  The
\* subsets are those of the call: what _find_best_split returned on the data
\* of the node, with the generator as the call found it.
RECURSIVE SidesRespectStored(_, _, _, _)
RECURSIVE SidesBelow(_, _, _, _, _)
SidesRespectStored(node, data, depth, s) ==
    IF node.type = "leaf" THEN TRUE
    ELSE SidesBelow(node, data, depth, s, find_best_split(data, numeric_features, s))
SidesBelow(node, data, depth, s, found) ==
    LET left == LeftOf(data, found.best.feature, found.best.threshold)
        right == RightOf(data, found.best.feature, found.best.threshold)
    IN  /\ \A i \in DOMAIN left : ValueOf(left[i], node.feature) < node.threshold
        /\ \A i \in DOMAIN right : ValueOf(right[i], node.feature) >= node.threshold
        /\ SidesRespectStored(node.left, left, depth + 1, found.rng)
        /\ SidesRespectStored(node.right, right, depth + 1,
                              build_tree(left, depth + 1, MaxDepth, <<>>, found.rng).rng)

\* the samples that traversal of the finished tree brings to each leaf are as
\* many as the leaf counts in samples
RECURSIVE LeavesCountRouted(_, _)
LeavesCountRouted(node, samples) ==
    IF node.type = "leaf" THEN node.samples = Len(samples)
    ELSE /\ LeavesCountRouted(node.left, LeftOf(samples, node.feature, node.threshold))
         /\ LeavesCountRouted(node.right, RightOf(samples, node.feature, node.threshold))

\* C17: in a tree _build_tree returns, the samples the left subtree of a
\* split was built from have a value below the threshold the node stores and
\* those of the right subtree a value at or above it, so that traversal
\* brings every sample of the bootstrap set to the leaf that counted it.
C17_SidesOfStoredThreshold ==
    out.op = "_build_tree"
        => /\ SidesRespectStored(out.result, out.arg.data, out.arg.depth, out.arg.s)
           /\ LeavesCountRouted(out.result, out.arg.data)

\* the node is a leaf where the claim says a leaf is forced and a split
\* elsewhere, at this node and below; the subsets, the best split and its
\* gain are those of the call
RECURSIVE LeafWhereForced(_, _, _, _)
RECURSIVE SplitWhereFree(_, _, _, _, _)
LeafWhereForced(node, data, depth, s) ==
    IF depth >= 5 \/ Len(data) < 10 THEN node.type = "leaf"
    ELSE SplitWhereFree(node, data, depth, s, find_best_split(data, numeric_features, s))
SplitWhereFree(node, data, depth, s, found) ==
    IF found.best.feature = NoFeature \/ RatLess(found.best.gain, [n |-> 1, d |-> 1000])
    THEN node.type = "leaf"
    ELSE /\ node.type = "split"
         /\ LeafWhereForced(node.left, LeftOf(data, found.best.feature, found.best.threshold),
                            depth + 1, found.rng)
         /\ LeafWhereForced(node.right, RightOf(data, found.best.feature, found.best.threshold),
                            depth + 1,
                            build_tree(LeftOf(data, found.best.feature, found.best.threshold),
                                       depth + 1, MaxDepth, <<>>, found.rng).rng)

\* C18: _build_tree returns a leaf when depth >= max_depth, when the subset
\* has fewer than 10 samples, and when no split or only one of gain below
\* 0.001 was found; otherwise it returns a split, so every split comes from
\* depth < max_depth, at least 10 samples and a gain of at least 0.001.
C18_LeafExactlyWhenForced ==
    out.op = "_build_tree"
        => LeafWhereForced(out.result, out.arg.data, out.arg.depth, out.arg.s)

C18_SplitBelowRootBuilt ==
    /\ out.op = "_build_tree"
    /\ out.arg.depth = 0
    /\ out.result.type = "split"
    /\ out.result.left.type = "split"
    /\ out.result.right.type = "leaf"
    /\ out.result.right.samples >= 10

\* a split has its two children and nothing else below it
RECURSIVE TwoChildren(_)
TwoChildren(node) ==
    IF node.type = "leaf" THEN {"left", "right"} \cap DOMAIN node = {}
    ELSE /\ node.type = "split"
         /\ {"left", "right"} \subseteq DOMAIN node
         /\ TwoChildren(node.left)
         /\ TwoChildren(node.right)

\* the comparisons _predict_tree makes before it returns a leaf
RECURSIVE Comparisons(_, _)
Comparisons(node, features) ==
    IF node.type = "leaf" THEN 0
    ELSE 1 + (IF Get(features, node.feature, 0) < node.threshold
              THEN Comparisons(node.left, features)
              ELSE Comparisons(node.right, features))

\* C19: _build_tree returns, each split of the tree has two children, no
\* path from the root of a tree built at depth 0 holds more than max_depth
\* splits (max_depth - depth for a subtree built at depth), and traversal
\* reaches a leaf within that many comparisons for every feature vector.
C19_BoundedTree ==
    out.op = "_build_tree"
        => /\ TwoChildren(out.result)
           /\ Height(out.result) <= 5 - out.arg.depth
           /\ \A x \in Vectors :
                 /\ predict_tree_train(out.result, x).type = "leaf"
                 /\ Comparisons(out.result, x) <= 5 - out.arg.depth

C19_DepthStoppedSplit ==
    /\ out.op = "_build_tree"
    /\ out.arg.depth = MaxDepth - 1
    /\ out.result.type = "split"
    /\ out.result.left.samples >= 10
    /\ out.result.left.prediction # out.result.right.prediction

\* the class with the highest count among the samples, the earliest in the
\* subset among those that tie
ClassCount(data, c) == Cardinality({i \in DOMAIN data : data[i].target.risk_level = c})
FirstOf(data, c) == CHOOSE i \in DOMAIN data :
                        /\ data[i].target.risk_level = c
                        /\ \A j \in 1..(i - 1) : data[j].target.risk_level # c
MajorityFirst(data, c) ==
    /\ \E i \in DOMAIN data : data[i].target.risk_level = c
    /\ \A j \in DOMAIN data :
          \/ ClassCount(data, data[j].target.risk_level) < ClassCount(data, c)
          \/ /\ ClassCount(data, data[j].target.risk_level) = ClassCount(data, c)
             /\ FirstOf(data, c) <= FirstOf(data, data[j].target.risk_level)

\* a leaf holds the majority class, the two means and the size of its subset
LeafHoldsMeans(leaf, data) ==
    /\ MajorityFirst(data, leaf.prediction)
    /\ leaf.probability * Len(data)
          = SumSeq([i \in DOMAIN data |-> data[i].target.failure_probability])
    /\ leaf.days * Len(data)
          = SumSeq([i \in DOMAIN data |-> data[i].target.estimated_days_to_failure])
    /\ leaf.samples = Len(data)

\* every leaf over a non-empty subset, at this node and below
RECURSIVE LeavesHoldMeans(_, _, _, _)
RECURSIVE LeavesBelowHoldMeans(_, _, _, _, _)
LeavesHoldMeans(node, data, depth, s) ==
    IF node.type = "leaf" THEN Len(data) = 0 \/ LeafHoldsMeans(node, data)
    ELSE LeavesBelowHoldMeans(node, data, depth, s, find_best_split(data, numeric_features, s))
LeavesBelowHoldMeans(node, data, depth, s, found) ==
    /\ LeavesHoldMeans(node.left, LeftOf(data, found.best.feature, found.best.threshold),
                       depth + 1, found.rng)
    /\ LeavesHoldMeans(node.right, RightOf(data, found.best.feature, found.best.threshold),
                       depth + 1,
                       build_tree(LeftOf(data, found.best.feature, found.best.threshold),
                                  depth + 1, MaxDepth, <<>>, found.rng).rng)

\* C20: a leaf _build_tree makes of a non-empty subset holds the class of
\* the highest count (the first in the subset on a tie), the mean of
\* failure_probability, the mean of estimated_days_to_failure and the size
\* of the subset.
C20_LeafHoldsMeans ==
    out.op = "_build_tree"
        => LeavesHoldMeans(out.result, out.arg.data, out.arg.depth, out.arg.s)

\* C21: _calculate_split_gain returns 0 when a side of the threshold is
\* empty, samples without the feature counting as 0 and so below a positive
\* threshold, and never returns a negative gain.
C21_GainNeverNegative ==
    out.op = "_calculate_split_gain"
        => /\ out.result.n_left = out.arg.left[1] + out.arg.left[2] + out.arg.left[3]
           /\ out.result.n_right = out.arg.right[1] + out.arg.right[2] + out.arg.right[3]
           /\ (out.result.n_left = 0 \/ out.result.n_right = 0) => out.result.gain = FZero
           /\ ~FNegative(out.result.gain)

\* the candidates of one feature as the claim lists them: none when the
\* samples hold fewer than 2 distinct values of it, else the sorted distinct
\* values at index floor(len * p), at most the last index, for p = 0.25,
\* 0.5, 0.75, each with the gain of splitting there
CandidatesOf(data, feature) ==
    LET held == {i \in DOMAIN data : feature \in DOMAIN data[i].features}
        values == SortedSeq({data[i].features[feature] : i \in held})
        last == Len(values) - 1
        At(percent) == Min((Len(values) * percent) \div 100, last)
    IN  IF Len(values) < 2 THEN <<>>
        ELSE [p \in 1..3 |->
                [feature |-> feature,
                 threshold |-> values[At(25 * p) + 1],
                 gain |-> calculate_split_gain(data, feature, values[At(25 * p) + 1])]]

\* the candidates of a call, in the order evaluated
Candidates(data, sampled) ==
    Flatten([i \in DOMAIN sampled |-> CandidatesOf(data, sampled[i])])

\* the first candidate that no candidate exceeds
FirstGreatest(cands) ==
    cands[CHOOSE i \in DOMAIN cands :
             /\ \A j \in DOMAIN cands : ~RatLess(cands[i].gain, cands[j].gain)
             /\ \A j \in 1..(i - 1) : RatLess(cands[j].gain, cands[i].gain)]

ReturnsFirstGreatest(result, sampled, cands) ==
    /\ Len(sampled) = Min(5, Len(out.arg.features))
    /\ Range(sampled) \subseteq Range(out.arg.features)
    /\ IF cands = <<>> THEN result.feature = NoFeature
       ELSE result = FirstGreatest(cands)

\* C22: _find_best_split returns the candidate of greatest gain among those
\* of the min(5, n) sampled features, the first evaluated of them when
\* several share that gain, and the feature None when no sampled feature has
\* 2 distinct values.
C22_FirstGreatestCandidate ==
    out.op = "_find_best_split"
        => ReturnsFirstGreatest(out.result,
                                random_sample(out.arg.features, Min(5, Len(out.arg.features)), out.arg.s).value,
                                Candidates(BuildSets[out.arg.set],
                                           random_sample(out.arg.features, Min(5, Len(out.arg.features)), out.arg.s).value))

TiedGreatest(result, cands) ==
    /\ Cardinality({i \in DOMAIN cands : cands[i].gain = result.gain}) >= 2
    /\ \E i \in DOMAIN cands : RatLess(cands[i].gain, result.gain)

\* a call in which several candidates share the greatest gain and another
\* candidate has a smaller one
C22_TieForGreatest ==
    /\ out.op = "_find_best_split"
    /\ out.result.feature # NoFeature
    /\ TiedGreatest(out.result,
                    Candidates(BuildSets[out.arg.set],
                               random_sample(out.arg.features, Min(5, Len(out.arg.features)), out.arg.s).value))

\* the features of the Split nodes of a tree
RECURSIVE SplitFeatures(_)
SplitFeatures(node) ==
    IF node.type = "leaf" THEN {}
    ELSE {node.feature} \cup SplitFeatures(node.left) \cup SplitFeatures(node.right)

TenNumericNames ==
    { "asset_age_months", "days_since_last_maintenance", "total_maintenance_count",
      "avg_monthly_usage_hours", "ambient_temperature_avg", "humidity_level_avg",
      "power_outage_events_last_year", "manufacturer_rating", "building_age_years",
      "seasonal_load_factor" }

CategoricalNames == { "asset_type", "last_repair_severity", "installation_quality" }

ImportanceKeys(self) == {self.feature_importances[i].k : i \in DOMAIN self.feature_importances}

\* C23: in the trees fit has built, every Split's feature is one of the ten
\* numeric names, and no categorical attribute is a Split's feature or a key
\* of feature_importances, though the samples carry those attributes.
C23_OnlyNumericSplits ==
    /\ \A i \in DOMAIN forest.trees :
          /\ SplitFeatures(forest.trees[i]) \subseteq TenNumericNames
          /\ SplitFeatures(forest.trees[i]) \cap CategoricalNames = {}
    /\ ImportanceKeys(forest) \cap CategoricalNames = {}

\* fit has built a tree with a Split from samples that carry the categorical
\* attributes
C23_SplitOnCarriedAttributes ==
    /\ out.op = "fit"
    /\ \A i \in DOMAIN DataSets[out.arg.data] :
          CategoricalNames \subseteq DOMAIN DataSets[out.arg.data][i].features
    /\ \E i \in DOMAIN forest.trees : SplitFeatures(forest.trees[i]) # {}
    /\ ImportanceKeys(forest) # {}

\* the sum of the samples fields of the leaves of a tree
RECURSIVE LeafSamples(_)
LeafSamples(node) ==
    IF node.type = "leaf" THEN node.samples
    ELSE LeafSamples(node.left) + LeafSamples(node.right)

\* every Leaf that is a child of a Split counts at least one sample
RECURSIVE ChildLeavesCount(_)
ChildLeavesCount(node) ==
    node.type = "split"
        => /\ node.left.type = "leaf" => node.left.samples >= 1
           /\ node.right.type = "leaf" => node.right.samples >= 1
           /\ ChildLeavesCount(node.left)
           /\ ChildLeavesCount(node.right)

\* C24: the bootstrap sample of a training set of N samples has N elements,
\* the samples fields of the leaves of the tree built from it sum to N, every
\* Leaf below a Split has samples >= 1, and a Leaf with samples = 0 is the
\* root of a tree built from the empty set.
C24_LeavesCountTheSample ==
    out.op = "_build_tree"
        => /\ Len(out.arg.data) = Len(BuildSets[out.arg.set])
           /\ LeafSamples(out.result) = Len(BuildSets[out.arg.set])
           /\ ChildLeavesCount(out.result)
           /\ (out.result.type = "leaf" /\ out.result.samples = 0) => BuildSets[out.arg.set] = <<>>

\* a tree built as fit builds it, with Splits over two levels
C24_DeepTreeBuilt ==
    /\ out.op = "_build_tree"
    /\ out.arg.depth = 0
    /\ Len(BuildSets[out.arg.set]) >= 2 * MinSamplesToSplit
    /\ out.result.type = "split"
    /\ out.result.left.type = "split" \/ out.result.right.type = "split"

\* the features split on in the trees of a forest
ForestSplitFeatures(self) ==
    UNION {SplitFeatures(self.trees[i]) : i \in DOMAIN self.trees}

\* C25: after fit on a new forest, feature_importances has one key for each
\* feature split on in some tree and no other key, and every value is
\* strictly positive.
C25_ImportancesOfSplitFeatures ==
    (hist.fits = 1 /\ Len(forest.trees) = forest.n_trees)
        => /\ ImportanceKeys(forest) = ForestSplitFeatures(forest)
           /\ Cardinality(ImportanceKeys(forest)) = Len(forest.feature_importances)
           /\ \A i \in DOMAIN forest.feature_importances :
                 /\ forest.feature_importances[i].v.n > 0
                 /\ forest.feature_importances[i].v.d > 0

\* the first fit of a forest of several trees has split in each of them
C25_EveryTreeSplit ==
    /\ hist.fits = 1
    /\ out.op = "fit"
    /\ forest.n_trees = MaxNTrees
    /\ \A i \in DOMAIN forest.trees : SplitFeatures(forest.trees[i]) # {}

\* C26: a load_model call that returns False leaves model_data and
\* model_loaded as they were before the call.
C26_FailedLoadKeepsGlobals ==
    [][(out'.op = "load_model" /\ ~out'.result.ok)
          => (model_data' = model_data /\ model_loaded' = model_loaded)]_vars

\* C27: make_prediction returns a result, no exception, for every asset in
\* every state the loads and reloads lead to.
C27_PredictionNeverRaises ==
    out.op = "make_prediction" => ~IsExc(out.result)

\* the predictions of a batch response are those of the one document in
\* model_data
BatchFromOneDocument ==
    (out.op = "predict_batch" /\ out.result.status = 200)
        => \A i \in DOMAIN out.arg :
              out.result.results[i] = make_prediction(out.arg[i], model_data, model_loaded)

\* C28: with reloads between the prediction requests in any order, the
\* predictions of a response come from one document, and model_loaded is
\* not True while model_data is None.
C28_OneDocumentAndLoadedIsSet ==
    /\ BatchFromOneDocument
    /\ model_loaded => model_data # None

\* the sum of a counter over the three classes
OverClasses(count) == count["low"] + count["medium"] + count["high"]

\* C29: in the evaluation loop of verify_model, after any number of rows
\* whose labels are low, medium or high, the nine cells of confusion sum to
\* the number of rows processed, each row confusion[c] sums to
\* risk_total[c], confusion[c][c] is risk_correct[c], and correct is the sum
\* of risk_correct.
C29_CountersAgree ==
    (out.op = "evaluation" /\ out.result.raised = None)
        => /\ OverClasses([c \in {"low", "medium", "high"} |-> OverClasses(out.result.confusion[c])])
                 = out.result.processed
           /\ \A c \in {"low", "medium", "high"} :
                 /\ OverClasses(out.result.confusion[c]) = out.result.risk_total[c]
                 /\ out.result.confusion[c][c] = out.result.risk_correct[c]
           /\ out.result.correct = OverClasses(out.result.risk_correct)

\* the loop has gone through rows of two classes, some predicted rightly and
\* some wrongly
C29_HitsAndMisses ==
    /\ out.op = "evaluation"
    /\ out.result.raised = None
    /\ out.result.processed >= 3
    /\ out.result.correct >= 1
    /\ out.result.correct < out.result.processed
    /\ Cardinality({c \in {"low", "medium", "high"} : out.result.risk_total[c] > 0}) >= 2

\* test_data.csv is absent, or holds at least one row and only rows labelled
\* low, medium or high
UsableTestFile(t) == ~TestFiles[t].exists \/ (LabelsInClasses(t) /\ ~EmptyTestSet(t))

\* C30: verify_model.main runs to its end without raising on every
\* model_params.json that train_model.main has written, the one written
\* without test data (accuracy None, tested_on 0) included.
C30_WrittenDocumentsVerify ==
    (out.op = "verify_main" /\ disk.exists /\ UsableTestFile(out.arg.test))
        => (out.result.raised = None /\ out.result.stage = "done")

=============================================================================
